---- MODULE Spec2Model ----
(***************************************************************************)
(* A model of the BTC / Polymarket dashboard:                              *)
(*   - market selection      (pickLatestLiveMarket, safeTimeMs)            *)
(*   - series alignment      (the sampling loop of GET in api/data/route)  *)
(*   - reference price       (ReferencePriceTracker of the specification)  *)
(*   - the polling dashboard (fetchData of components/Dashboard.tsx), its  *)
(*     view window and its multiplier input                                *)
(*   - the data route        (GET of api/data/route)                       *)
(*   - the indicator         (computeATR of the specification)             *)
(*   - the WebSocket hooks and the polling hook                            *)
(*                                                                         *)
(* Encodings.  A nullable value is a sequence of length at most one:       *)
(* None is null/undefined, Some(v) is the value v.  A JavaScript number    *)
(* that may be NaN is a record [fin, v].  Probabilities are written in     *)
(* hundredths (50 stands for 0.50); they are only ever copied.             *)
(* Timestamps are integers in milliseconds unless stated otherwise; a      *)
(* prediction timestamp is a pair [hi, lo] (see the alignment section).    *)
(***************************************************************************)
EXTENDS Integers, Sequences, FiniteSets, TLC

VARIABLES
    \* ---- pickLatestLiveMarket(markets, nowMs) --------------------------
    markets,        \* the candidate list handed to the selector
    nowMs,          \* the current time handed to the selector
    picked,         \* the selector's return value: None, or Some(position of the market)
    selPc,          \* "idle" | "input" | "done"
    \* ---- alignment loop of GET ------------------------------------------
    btcKlines1s,    \* the price samples [openTime, close]
    polyHistory,    \* the raw prediction samples [t, p]
    polyHistoryMs,  \* the prediction samples with t in milliseconds
    windowStartMs,  \* start of the current 15 minute window
    history,        \* the aligned output [timeMs, btc, poly]
    alignPc,        \* "idle" | "input" | "done"
    \* ---- ReferencePriceTracker ------------------------------------------
    refPrice,       \* the stored reference price (a number that may be NaN),
                    \* None while empty
    captured,       \* TRUE in state "captured"
    recWindowStart, \* windowStart of the last successful capture
    recMarketId,    \* marketId of the last successful capture
    lastCapture,    \* arguments of the most recent capture call (None before the first)
    heldBefore,     \* history variable: what the tracker held when the most recent
                    \* capture call was made: [refPrice, captured, recWindowStart,
                    \* recMarketId]
    \* ---- Dashboard (fetchData polling) ----------------------------------
    chartHistory,   \* React state chartHistory: sequence of ChartPoint
    prevMarketSlug, \* the ref prevMarketSlug.current
    view,           \* React state view: [lo, hi]
    data,           \* React state data: the last snapshot stored, None initially
    prevBtcPrice,   \* React state prevBtcPrice
    atr,            \* React state atr
    error,          \* React state error: TRUE when an error text is stored
    inFlight,       \* number of fetchData calls started and not yet settled
    ticks,          \* number of fetchData calls started so far
    recordedUnder,  \* history variable: the slug under which each point of
                    \* chartHistory was recorded (same length as chartHistory)
    atrMultiplier,  \* React state atrMultiplier, in hundredths (50 stands for 0.5)
    dragRef,        \* the ref dragRef.current: None, or Some([startLo, startHi])
    wallSecond,     \* the second the wall clock showed when fetchData last read it
                    \* (before the first reading: at the mount)
    \* ---- GET of app/api/data/route.ts (with the selection and alignment
    \*      variables above as its locals) ------------------------------------
    clock,          \* the readings of Date.now() taken so far: [t1], [t1, t2] or,
                    \* with a market selected, [t1, t2, t3]
    upstream,       \* what the upstream fetches have answered so far
    windowEndMs,    \* end of the current 15 minute window
    response,       \* the HTTP answer, None before GET has run
    requested,      \* the upstream requests GET has issued: a set of [kind, token]
    routePc,        \* "idle" | "input" | "events" | "prices" | "done"
    \* ---- computeATR -------------------------------------------------------
    atrKlines,      \* the bars [high, low, close] handed to computeATR
    atrPeriod,      \* the period handed to computeATR
    atrResult,      \* the value returned: None for null
    atrPc,          \* "idle" | "input" | "done"
    \* ---- WebSocket hooks (useBinanceWebSocket, usePolymarketWebSocket) ----
    reconnectMs,    \* the closure variable reconnectMs
    wsState,        \* "none" | "connecting" | "open" | "closing"
    wsRef,          \* TRUE when wsRef.current holds a socket
    reconnectTimer, \* the pending setTimeout: None, or Some(delay)
    connected,      \* React state connected
    wsData,         \* React state data: None, or Some(price)
    wsMounted,      \* FALSE once the effect's cleanup has run
    \* ---- usePolymarketMarketPrices ----------------------------------------
    hookData,       \* React state data: None, or Some(prices)
    hookLoading,    \* React state loading
    hookMounted,    \* the closure variable mounted
    hookLast        \* history variable: what the hook's latest fetch yielded
                    \* (None before the first; Some(None) when it yielded null)

selVars   == <<markets, nowMs, picked, selPc>>
alignVars == <<btcKlines1s, polyHistory, polyHistoryMs, windowStartMs, history, alignPc>>
refVars   == <<refPrice, captured, recWindowStart, recMarketId, lastCapture,
               heldBefore>>
uiVars    == <<atrMultiplier, dragRef>>
dashVars  == <<chartHistory, prevMarketSlug, view, data, prevBtcPrice, atr, error,
               inFlight, ticks, recordedUnder, wallSecond, uiVars>>
routeVars == <<clock, upstream, windowEndMs, response, requested, routePc>>
atrVars   == <<atrKlines, atrPeriod, atrResult, atrPc>>
wsVars    == <<reconnectMs, wsState, wsRef, reconnectTimer, connected, wsData, wsMounted>>
pollVars  == <<hookData, hookLoading, hookMounted, hookLast>>
vars      == <<selVars, alignVars, refVars, dashVars, routeVars, atrVars, wsVars,
               pollVars>>

----------------------------------------------------------------------------
(* Nullable values and JavaScript numbers                                   *)

None      == <<>>
Some(v)   == <<v>>
IsSome(o) == o # <<>>
Val(o)    == o[1]

Num(n)    == [fin |-> TRUE, v |-> n]
NaN       == [fin |-> FALSE, v |-> 0]

\* Number.isFinite(n)
NumberIsFinite(n) == n.fin

\* Math.max and Math.min of two numbers.
Max2(x, y) == IF x >= y THEN x ELSE y
Min2(x, y) == IF x <= y THEN x ELSE y

\* All sequences over S of length at most n.
SeqsUpTo(S, n) == UNION {[1..k -> S] : k \in 0..n}

----------------------------------------------------------------------------
(* Idle values of each component, used by the specifications that do not    *)
(* exercise it.                                                             *)

SelIdle ==
    /\ markets = <<>>
    /\ nowMs = 0
    /\ picked = None
    /\ selPc = "idle"

AlignIdle ==
    /\ btcKlines1s = <<>>
    /\ polyHistory = <<>>
    /\ polyHistoryMs = <<>>
    /\ windowStartMs = 0
    /\ history = <<>>
    /\ alignPc = "idle"

RefInit ==
    /\ refPrice = None
    /\ captured = FALSE
    /\ recWindowStart = None
    /\ recMarketId = None
    /\ lastCapture = None
    /\ heldBefore = [refPrice |-> None, captured |-> FALSE,
                     recWindowStart |-> None, recMarketId |-> None]

DashInit ==
    /\ chartHistory = <<>>
    /\ prevMarketSlug = None
    /\ view = [lo |-> 0, hi |-> 0]
    /\ data = None
    /\ prevBtcPrice = None
    /\ atr = None
    /\ error = FALSE
    /\ inFlight = 0
    /\ ticks = 0
    /\ recordedUnder = <<>>
    /\ atrMultiplier = 50
    /\ dragRef = None
    /\ wallSecond = 0

RouteIdle ==
    /\ clock = <<>>
    /\ upstream = <<>>
    /\ windowEndMs = 0
    /\ response = None
    /\ requested = {}
    /\ routePc = "idle"

AtrIdle ==
    /\ atrKlines = <<>>
    /\ atrPeriod = 0
    /\ atrResult = None
    /\ atrPc = "idle"

\* The hook before its effect has run.
WsInit ==
    /\ reconnectMs = 500
    /\ wsState = "none"
    /\ wsRef = FALSE
    /\ reconnectTimer = None
    /\ connected = FALSE
    /\ wsData = None
    /\ wsMounted = TRUE

PollInit ==
    /\ hookData = None
    /\ hookLoading = TRUE
    /\ hookMounted = TRUE
    /\ hookLast = None

----------------------------------------------------------------------------
(* Market selection: app/api/data/route.ts                                  *)

(* A date field of a market as the API delivers it:                         *)
(*   Absent      undefined or null (falsy, and replaced by ??)              *)
(*   EmptyDate   the string "" (falsy, but kept by ??)                      *)
(*   Invalid     a non-empty string that Date cannot parse                  *)
(*   DateStr(t)  a date string that parses to the time t                    *)
Absent     == [kind |-> "absent", ms |-> 0]
EmptyDate  == [kind |-> "empty", ms |-> 0]
Invalid    == [kind |-> "invalid", ms |-> 0]
DateStr(t) == [kind |-> "date", ms |-> t]

\* new Date(x).getTime() for a truthy x: NaN when x does not parse.
DateGetTime(x) == IF x.kind = "date" THEN Num(x.ms) ELSE NaN

\* !x for a date field: undefined, null and "" are falsy.
DateFalsy(x) == x.kind \in {"absent", "empty"}

\* safeTimeMs(x)
safeTimeMs(x) ==
    IF DateFalsy(x)
    THEN None
    ELSE LET t == DateGetTime(x)
         IN  IF NumberIsFinite(t) THEN Some(t.v) ELSE None

\* arr.sort((a, b) => a.endMs - b.endMs), mutated: descending.
SortByEndMsDescending(arr) ==
    LET n == Len(arr)
        rank(i) == Cardinality({j \in 1..n :
                       \/ Val(arr[j].endMs) > Val(arr[i].endMs)
                       \/ Val(arr[j].endMs) = Val(arr[i].endMs) /\ j <= i})
    IN  [k \in 1..n |-> arr[CHOOSE i \in 1..n : rank(i) = k]]

\* The sort of pickLatestLiveMarket, mutated: ascending by endMs, but equal
\* elements come out in the reverse of their input order.
SortByEndMsLastFirst(arr) ==
    LET n == Len(arr)
        rank(i) == Cardinality({j \in 1..n :
                       \/ Val(arr[j].endMs) < Val(arr[i].endMs)
                       \/ Val(arr[j].endMs) = Val(arr[i].endMs) /\ j >= i})
    IN  [k \in 1..n |-> arr[CHOOSE i \in 1..n : rank(i) = k]]

\* arr.sort((a, b) => a.endMs - b.endMs): ascending by endMs, and stable
\* (Array.prototype.sort keeps the input order of equal elements).
SortByEndMs(arr) ==
    LET n == Len(arr)
        rank(i) == Cardinality({j \in 1..n :
                       \/ Val(arr[j].endMs) < Val(arr[i].endMs)
                       \/ Val(arr[j].endMs) = Val(arr[i].endMs) /\ j <= i})
    IN  [k \in 1..n |-> arr[CHOOSE i \in 1..n : rank(i) = k]]

\* markets.map(m => ({m, endMs, startMs})).filter(x => x.endMs !== null)
\* The market object m is identified by its position in the input list.
Enriched(ms) ==
    SelectSeq([i \in 1..Len(ms) |->
                  [m       |-> i,
                   endMs   |-> safeTimeMs(ms[i].endDate),
                   startMs |-> safeTimeMs(ms[i].eventStartTime)]],
              LAMBDA x : x.endMs # None)

\* The filter of `live`, mutated: the end time is not tested.
IsStartedOnly(x, now) ==
    IF x.startMs = None THEN TRUE ELSE Val(x.startMs) <= now

\* The filter of `live`, mutated: a market without start time has not started.
IsStartedStrict(x, now) ==
    LET started == IF x.startMs = None THEN FALSE ELSE Val(x.startMs) <= now
    IN  started /\ now < Val(x.endMs)

\* The filter of `live`.
IsStartedAndOpen(x, now) ==
    LET started == IF x.startMs = None THEN TRUE ELSE Val(x.startMs) <= now
    IN  started /\ now < Val(x.endMs)

\* pickLatestLiveMarket, mutated: the live markets are not preferred.
pickEarliestEnding(ms, now) ==
    LET upcoming == SortByEndMs(SelectSeq(Enriched(ms), LAMBDA x : now < Val(x.endMs)))
    IN  IF Len(upcoming) > 0 THEN Some(upcoming[1].m) ELSE None

\* pickLatestLiveMarket, mutated: falls back to the first candidate instead of null.
pickFallbackFirst(ms, now) ==
    IF Len(ms) = 0
    THEN None
    ELSE LET enriched == Enriched(ms)
             live     == SortByEndMs(SelectSeq(enriched,
                             LAMBDA x : IsStartedAndOpen(x, now)))
             upcoming == SortByEndMs(SelectSeq(enriched,
                             LAMBDA x : now < Val(x.endMs)))
         IN  IF Len(live) > 0 THEN Some(live[1].m)
             ELSE IF Len(upcoming) > 0 THEN Some(upcoming[1].m)
             ELSE Some(1)

\* pickLatestLiveMarket(markets, nowMs): None, or Some(position of the market).
pickLatestLiveMarket(ms, now) ==
    IF Len(ms) = 0
    THEN None
    ELSE LET enriched == Enriched(ms)
             live     == SortByEndMs(SelectSeq(enriched,
                             LAMBDA x : IsStartedAndOpen(x, now)))
             upcoming == SortByEndMs(SelectSeq(enriched,
                             LAMBDA x : now < Val(x.endMs)))
         IN  IF Len(live) > 0 THEN Some(live[1].m)
             ELSE IF Len(upcoming) > 0 THEN Some(upcoming[1].m)
             ELSE None

(* Bounds of the selection inputs. *)
MaxMarkets == 3
MaxTime    == 4

EndDateValues   == {Absent, Invalid} \cup {DateStr(t) : t \in 1..MaxTime}
StartDateValues == {Absent, Invalid, DateStr(1), DateStr(MaxTime)}
MarketValues    == [endDate : EndDateValues, eventStartTime : StartDateValues]
NowValues       == {1, 2}

SelInit ==
    /\ markets \in SeqsUpTo(MarketValues, MaxMarkets)
    /\ nowMs \in NowValues
    /\ picked = None
    /\ selPc = "input"
    /\ AlignIdle /\ RefInit /\ DashInit
    /\ RouteIdle /\ AtrIdle /\ WsInit /\ PollInit

\* const market = pickLatestLiveMarket(markets, nowMs)
Select ==
    /\ selPc = "input"
    /\ picked' = pickLatestLiveMarket(markets, nowMs)
    /\ selPc' = "done"
    /\ UNCHANGED <<markets, nowMs, alignVars, refVars, dashVars>>
    /\ UNCHANGED <<routeVars, atrVars, wsVars, pollVars>>

SelNext == Select

SpecSelect == SelInit /\ [][SelNext]_vars

(* Classification of a candidate, stated on the raw fields. *)
EndParses(mk)    == mk.endDate.kind = "date"
StartParses(mk)  == mk.eventStartTime.kind = "date"
EndOf(mk)        == mk.endDate.ms
StartOf(mk)      == mk.eventStartTime.ms
IsLive(mk, now) ==
    /\ EndParses(mk)
    /\ (~StartParses(mk) \/ StartOf(mk) <= now)
    /\ now < EndOf(mk)
IsUpcoming(mk, now) ==
    /\ EndParses(mk)
    /\ now < EndOf(mk)
    /\ StartParses(mk) /\ StartOf(mk) > now
LiveSet     == {i \in 1..Len(markets) : IsLive(markets[i], nowMs)}
UpcomingSet == {i \in 1..Len(markets) : IsUpcoming(markets[i], nowMs)}

\* C1: when at least one candidate is live, the selector returns a live market
\* whose end time is the minimum over the live markets, and never a market whose
\* start time is in the future.
C1_LivePreferred ==
    (selPc = "done" /\ LiveSet # {}) =>
        /\ IsSome(picked)
        /\ Val(picked) \in LiveSet
        /\ Val(picked) \notin UpcomingSet
        /\ \A j \in LiveSet : EndOf(markets[Val(picked)]) <= EndOf(markets[j])

\* Two live markets with different end times and an upcoming market that ends
\* before both of them; the selector has answered.
C1_Witness ==
    /\ selPc = "done"
    /\ \E i, j \in LiveSet : EndOf(markets[i]) < EndOf(markets[j])
    /\ \E u \in UpcomingSet : \A i \in LiveSet : EndOf(markets[u]) < EndOf(markets[i])
    /\ IsSome(picked) /\ Val(picked) \in LiveSet

\* C2: when no candidate is live and at least one is upcoming, the selector
\* returns an upcoming market whose end time is the minimum over the upcoming ones.
C2_UpcomingFallback ==
    (selPc = "done" /\ LiveSet = {} /\ UpcomingSet # {}) =>
        /\ IsSome(picked)
        /\ Val(picked) \in UpcomingSet
        /\ \A j \in UpcomingSet : EndOf(markets[Val(picked)]) <= EndOf(markets[j])

\* No live market, two upcoming markets with different end times, the later one
\* first in the list, and the selector returned the earlier one.
C2_Witness ==
    /\ selPc = "done"
    /\ LiveSet = {}
    /\ \E i, j \in UpcomingSet : i < j /\ EndOf(markets[i]) > EndOf(markets[j])
    /\ IsSome(picked) /\ Val(picked) \in UpcomingSet /\ Val(picked) > 1

\* C3: for an empty list, and for a list in which no market has a parseable end
\* time, the selector returns null (and its evaluation does not fail).
C3_NoneWithoutEndTimes ==
    (selPc = "done" /\ \A i \in 1..Len(markets) : ~EndParses(markets[i])) =>
        picked = None

\* A non-empty list: one end time missing, one unparseable, start times that
\* parse (past and future); the selector returned null.
C3_Witness ==
    /\ selPc = "done"
    /\ \E i, j \in 1..Len(markets) :
          /\ markets[i].endDate = Absent /\ markets[j].endDate = Invalid
          /\ StartParses(markets[i]) /\ StartOf(markets[i]) <= nowMs
          /\ StartParses(markets[j]) /\ StartOf(markets[j]) > nowMs
    /\ \A i \in 1..Len(markets) : ~EndParses(markets[i])
    /\ picked = None

\* C19: a market that the selector returns has a parseable end time that lies
\* after now; a market without end time, with an unparseable one, or with
\* end <= now is never returned, wherever it stands in the list.
C19_EligibleOnly ==
    (selPc = "done" /\ IsSome(picked)) =>
        /\ Val(picked) \in 1..Len(markets)
        /\ EndParses(markets[Val(picked)])
        /\ nowMs < EndOf(markets[Val(picked)])

\* The first market has no parseable end time, the second has ended (both have
\* started), and the selector returned the third.
C19_Witness ==
    /\ selPc = "done"
    /\ Len(markets) = 3
    /\ ~EndParses(markets[1])
    /\ EndParses(markets[2]) /\ EndOf(markets[2]) <= nowMs
    /\ picked = Some(3)

\* The positions of S whose market has the least end time over S.
EarliestEnding(S) == {i \in S : \A j \in S : EndOf(markets[i]) <= EndOf(markets[j])}

\* The least position of a non-empty set of positions.
FirstOf(S) == CHOOSE i \in S : \A j \in S : i <= j

\* C21: when several live markets share the minimal end time, the selector
\* returns the one that stands first in the input list; the same holds among
\* the upcoming markets when no market is live.
C21_TieBreakFirst ==
    selPc = "done" =>
        /\ LiveSet # {} => picked = Some(FirstOf(EarliestEnding(LiveSet)))
        /\ (LiveSet = {} /\ UpcomingSet # {}) =>
               picked = Some(FirstOf(EarliestEnding(UpcomingSet)))

\* Three live markets: the first ends last, the second and the third share the
\* minimal end time, and the selector returned the second.
C21_Witness ==
    /\ selPc = "done"
    /\ Len(markets) = 3
    /\ LiveSet = {1, 2, 3}
    /\ EndOf(markets[2]) = EndOf(markets[3])
    /\ EndOf(markets[2]) < EndOf(markets[1])
    /\ picked = Some(2)

\* The market has no parseable start time, and an end time after now.
StartlessOpen(mk) == ~StartParses(mk) /\ EndParses(mk) /\ nowMs < EndOf(mk)

\* C20: when a market without parseable start time is open (now < end), the
\* selector returns a market that has started and not an upcoming one, and no
\* market with a later end time than that market's.
C20_StartlessIsLive ==
    selPc = "done" =>
        \A i \in 1..Len(markets) :
            StartlessOpen(markets[i]) =>
                /\ IsSome(picked)
                /\ ~IsUpcoming(markets[Val(picked)], nowMs)
                /\ EndOf(markets[Val(picked)]) <= EndOf(markets[i])
                /\ (\A j \in 1..Len(markets) :
                       (j # i /\ EndParses(markets[j]) /\ nowMs < EndOf(markets[j]))
                           => IsUpcoming(markets[j], nowMs))
                   => picked = Some(i)

\* A market with an unparseable start time was returned although an upcoming
\* market ends earlier and a started market ends later.
C20_Witness ==
    /\ selPc = "done"
    /\ \E i, u, l \in 1..Len(markets) :
          /\ markets[i].eventStartTime = Invalid
          /\ StartlessOpen(markets[i])
          /\ picked = Some(i)
          /\ IsUpcoming(markets[u], nowMs) /\ EndOf(markets[u]) < EndOf(markets[i])
          /\ StartParses(markets[l]) /\ IsLive(markets[l], nowMs)
          /\ EndOf(markets[l]) > EndOf(markets[i])

----------------------------------------------------------------------------
(* Series alignment: the tail of GET in app/api/data/route.ts               *)

\* const SAMPLE_INTERVAL_MS = 5000
SAMPLE_INTERVAL_MS == 5000

(* A prediction timestamp t is a non-negative integer that may be of the     *)
(* order of 10^9 (seconds), 10^12 (milliseconds) or 10^15 (a product by       *)
(* 1000); it is kept as the pair [hi, lo] with t = hi * 10^6 + lo and         *)
(* 0 <= lo < 10^6.  The timestamps of the price samples stay plain integers.  *)
Million == 1000000

\* The pair of the integer n >= 0, and the integer of a pair that is small enough.
WideOf(n) == [hi |-> n \div Million, lo |-> n % Million]
IntOf(w)  == w.hi * Million + w.lo

\* a < b and a <= b
WideLess(a, b) == a.hi < b.hi \/ (a.hi = b.hi /\ a.lo < b.lo)
WideLeq(a, b)  == a.hi < b.hi \/ (a.hi = b.hi /\ a.lo <= b.lo)

\* a * 1000
WideTimes1000(a) ==
    [hi |-> a.hi * 1000 + a.lo \div 1000, lo |-> (a.lo % 1000) * 1000]

\* 1e12
TenTo12 == [hi |-> Million, lo |-> 0]

\* item.t < 1e12 ? item.t * 1000 : item.t, mutated: the timestamp is kept as it is.
NormalizeTKeep(t) == t

\* item.t < 1e12 ? item.t * 1000 : item.t, mutated: always multiplied.
NormalizeTAlways(t) == WideTimes1000(t)

\* item.t < 1e12 ? item.t * 1000 : item.t
NormalizeT(t) == IF WideLess(t, TenTo12) THEN WideTimes1000(t) ELSE t

\* polyHistory.map(item => ({t: ..., p: item.p}))
polyHistoryMsOf(ph) ==
    [i \in 1..Len(ph) |-> [t |-> NormalizeT(ph[i].t), p |-> ph[i].p]]

\* The inner loop, mutated: the comparison is turned around.
RECURSIVE ScanBackTurned(_, _, _)
ScanBackTurned(polyMs, i, openTime) ==
    IF i < 1 THEN None
    ELSE IF WideLeq(WideOf(openTime), polyMs[i].t) THEN Some(polyMs[i].p)
    ELSE ScanBackTurned(polyMs, i - 1, openTime)

\* for (let i = polyHistoryMs.length - 1; i >= 0; i--)
\*   if (polyHistoryMs[i].t <= k.openTime) { polyPrice = polyHistoryMs[i].p; break; }
RECURSIVE ScanBack(_, _, _)
ScanBack(polyMs, i, openTime) ==
    IF i < 1 THEN None
    ELSE IF WideLeq(polyMs[i].t, WideOf(openTime)) THEN Some(polyMs[i].p)
    ELSE ScanBack(polyMs, i - 1, openTime)

\* The sampling loop, mutated: the emitted point is stamped with the sampling
\* slot (nextSampleTime) instead of the kline's openTime.
RECURSIVE AlignFromSlotStamped(_, _, _, _, _)
AlignFromSlotStamped(klines, polyMs, i, hist, nextSampleTime) ==
    IF i > Len(klines) THEN hist
    ELSE LET k == klines[i]
         IN  IF k.openTime >= nextSampleTime /\ k.close # None
             THEN AlignFromSlotStamped(klines, polyMs, i + 1,
                      Append(hist, [timeMs |-> nextSampleTime,
                                    btc    |-> Val(k.close),
                                    poly   |-> ScanBack(polyMs, Len(polyMs), k.openTime)]),
                      k.openTime + SAMPLE_INTERVAL_MS)
             ELSE AlignFromSlotStamped(klines, polyMs, i + 1, hist, nextSampleTime)

\* The sampling loop, mutated: nextSampleTime is not tested.
RECURSIVE AlignFromUngated(_, _, _, _, _)
AlignFromUngated(klines, polyMs, i, hist, nextSampleTime) ==
    IF i > Len(klines) THEN hist
    ELSE LET k == klines[i]
         IN  IF k.close # None
             THEN AlignFromUngated(klines, polyMs, i + 1,
                      Append(hist, [timeMs |-> k.openTime,
                                    btc    |-> Val(k.close),
                                    poly   |-> ScanBack(polyMs, Len(polyMs), k.openTime)]),
                      k.openTime + SAMPLE_INTERVAL_MS)
             ELSE AlignFromUngated(klines, polyMs, i + 1, hist, nextSampleTime)

\* for (const k of btcKlines1s) { if (k.openTime >= nextSampleTime && k.close !== null) {...} }
\* from the kline at position i on, with the output so far and nextSampleTime.
RECURSIVE AlignFrom(_, _, _, _, _)
AlignFrom(klines, polyMs, i, hist, nextSampleTime) ==
    IF i > Len(klines) THEN hist
    ELSE LET k == klines[i]
         IN  IF k.openTime >= nextSampleTime /\ k.close # None
             THEN AlignFrom(klines, polyMs, i + 1,
                      Append(hist, [timeMs |-> k.openTime,
                                    btc    |-> Val(k.close),
                                    poly   |-> ScanBack(polyMs, Len(polyMs), k.openTime)]),
                      k.openTime + SAMPLE_INTERVAL_MS)
             ELSE AlignFrom(klines, polyMs, i + 1, hist, nextSampleTime)

\* history, as GET builds it from btcKlines1s, polyHistory and windowStartMs.
AlignedHistory(klines, ph, windowStart) ==
    AlignFrom(klines, polyHistoryMsOf(ph), 1, <<>>, windowStart)

(* Bounds of the alignment inputs. *)
MaxKlines == 3
MaxPreds  == 2

\* Price samples: open times on and off the 5 s grid, a close that is missing or
\* a price that grows with the open time (100 at 0, 101 at 5000, 102 at 10000).
KlineTimes   == {0, 3000, 5000, 10000}
CloseAt(t)   == 100 + t \div SAMPLE_INTERVAL_MS
KlineValues  == UNION {{[openTime |-> t, close |-> c] : c \in {None, Some(CloseAt(t))}} :
                          t \in KlineTimes}
\* Prediction samples as the price-history endpoint delivers them: t in seconds.
PredSeconds  == {3, 8}
PredValues   == [t : {WideOf(sec) : sec \in PredSeconds}, p : {50, 60}]

AlignInit ==
    /\ btcKlines1s \in SeqsUpTo(KlineValues, MaxKlines)
    /\ polyHistory \in SeqsUpTo(PredValues, MaxPreds)
    /\ polyHistoryMs = <<>>
    /\ windowStartMs = 0
    /\ history = <<>>
    /\ alignPc = "input"
    /\ SelIdle /\ RefInit /\ DashInit
    /\ RouteIdle /\ AtrIdle /\ WsInit /\ PollInit

\* Lines 252-274 of GET.
Align ==
    /\ alignPc = "input"
    /\ polyHistoryMs' = polyHistoryMsOf(polyHistory)
    /\ history' = AlignedHistory(btcKlines1s, polyHistory, windowStartMs)
    /\ alignPc' = "done"
    /\ UNCHANGED <<btcKlines1s, polyHistory, windowStartMs, selVars, refVars, dashVars>>
    /\ UNCHANGED <<routeVars, atrVars, wsVars, pollVars>>

AlignNext == Align

SpecAlign == AlignInit /\ [][AlignNext]_vars

(* The normalisation on timestamps of either unit: seconds and milliseconds  *)
(* of the present day, and the values on both sides of 10^12.                 *)
StampSeconds == [hi |-> 1700,    lo |-> 900003]   \* 1 700 900 003 s
StampMillis  == [hi |-> 1700900, lo |-> 8000]     \* 1 700 900 008 000 ms
StampBelow   == [hi |-> 999999,  lo |-> 999999]   \* 10^12 - 1
StampValues  == {StampSeconds, StampMillis, StampBelow, TenTo12}
StampedPreds == [t : StampValues, p : {50, 60}]

NormInit ==
    /\ btcKlines1s \in {<<>>, <<[openTime |-> 0, close |-> Some(100)]>>}
    /\ polyHistory \in SeqsUpTo(StampedPreds, MaxPreds)
    /\ polyHistoryMs = <<>>
    /\ windowStartMs = 0
    /\ history = <<>>
    /\ alignPc = "input"
    /\ SelIdle /\ RefInit /\ DashInit
    /\ RouteIdle /\ AtrIdle /\ WsInit /\ PollInit

SpecNorm == NormInit /\ [][AlignNext]_vars

\* The timestamp a / 1000, rounded down.
WideDiv1000(a) ==
    [hi |-> a.hi \div 1000, lo |-> (a.hi % 1000) * 1000 + a.lo \div 1000]

\* ms is the timestamp raw multiplied by 1000.
IsThousandfold(ms, raw) == ms.lo % 1000 = 0 /\ WideDiv1000(ms) = raw

\* C23: the normalised prediction samples are the raw ones, position by
\* position: the probability is the same, and the timestamp is the raw one
\* times 1000 when the raw one is below 10^12 and the raw one itself otherwise.
C23_UnitNormalisation ==
    alignPc = "done" =>
        /\ Len(polyHistoryMs) = Len(polyHistory)
        /\ \A i \in 1..Len(polyHistory) :
              LET raw == polyHistory[i]
                  ms  == polyHistoryMs[i]
              IN  /\ ms.p = raw.p
                  /\ raw.t.hi < 1000000  => IsThousandfold(ms.t, raw.t)
                  /\ raw.t.hi >= 1000000 => ms.t = raw.t

\* A sample stamped in seconds is followed by one stamped in milliseconds; the
\* first has been multiplied, the second kept, and the order is the same.
C23_Witness ==
    /\ alignPc = "done"
    /\ polyHistory = <<[t |-> StampSeconds, p |-> 50], [t |-> StampMillis, p |-> 60]>>
    /\ polyHistoryMs = <<[t |-> [hi |-> 1700900, lo |-> 3000], p |-> 50],
                         [t |-> [hi |-> 1700900, lo |-> 8000], p |-> 60]>>

(* The prediction samples of the model are delivered in seconds; their       *)
(* timestamps in milliseconds, stated without the code's normalisation.      *)
PredMs(i)       == IntOf(polyHistory[i].t) * 1000
AtOrBefore(pt)  == {i \in 1..Len(polyHistory) : PredMs(i) <= pt.timeMs}
MaxOf(S)        == CHOOSE x \in S : \A y \in S : y <= x
PredsSortedAsc  == \A i, j \in 1..Len(polyHistory) : i < j => PredMs(i) <= PredMs(j)
\* The point carries the value of a sample that no sample at or before the
\* point's timestamp is more recent than.
CarriesMostRecent(pt) ==
    /\ IsSome(pt.poly)
    /\ \E i \in AtOrBefore(pt) :
          /\ \A j \in AtOrBefore(pt) : PredMs(j) <= PredMs(i)
          /\ Val(pt.poly) = polyHistory[i].p

ExampleKlines  == << [openTime |-> 0,     close |-> Some(100)],
                     [openTime |-> 5000,  close |-> Some(101)],
                     [openTime |-> 10000, close |-> Some(102)] >>
ExamplePreds   == << [t |-> WideOf(3), p |-> 50], [t |-> WideOf(8), p |-> 60] >>
ExampleAligned == << [timeMs |-> 0,     btc |-> 100, poly |-> None],
                     [timeMs |-> 5000,  btc |-> 101, poly |-> Some(50)],
                     [timeMs |-> 10000, btc |-> 102, poly |-> Some(60)] >>

\* C4 as claimed: for every prediction list, every emitted point carries the
\* value of the most recent (greatest timestamp) prediction sample at or before
\* the point's timestamp, and null exactly when there is none.
C4_AsClaimed ==
    alignPc = "done" =>
        \A n \in 1..Len(history) :
            IF AtOrBefore(history[n]) = {}
            THEN history[n].poly = None
            ELSE CarriesMostRecent(history[n])

\* C4, amended: every emitted point carries null exactly when no prediction
\* sample has a timestamp at or before the point's, and otherwise the value of
\* the last sample of the list that has; with the prediction samples sorted
\* ascending by timestamp this is the most recent such sample.  The example
\* [(0,100),(5 s,101),(10 s,102)] with [(3 s,0.5),(8 s,0.6)] aligns as stated.
C4_CarryForward ==
    alignPc = "done" =>
        /\ \A n \in 1..Len(history) :
              LET pt == history[n]
              IN  /\ (pt.poly = None) <=> (AtOrBefore(pt) = {})
                  /\ AtOrBefore(pt) # {} =>
                        Val(pt.poly) = polyHistory[MaxOf(AtOrBefore(pt))].p
                  /\ (PredsSortedAsc /\ AtOrBefore(pt) # {}) => CarriesMostRecent(pt)
        /\ (btcKlines1s = ExampleKlines /\ polyHistory = ExamplePreds) =>
              history = ExampleAligned

\* The example input has been aligned.
C4_Witness ==
    /\ alignPc = "done"
    /\ btcKlines1s = ExampleKlines
    /\ polyHistory = ExamplePreds
    /\ PredsSortedAsc
    /\ history = ExampleAligned

\* s is a subsequence of t: a strictly increasing choice of positions of t.
IsSubsequence(s, t) ==
    \E f \in [1..Len(s) -> 1..Len(t)] :
        /\ \A i, j \in 1..Len(s) : i < j => f[i] < f[j]
        /\ \A i \in 1..Len(s) : s[i] = t[f[i]]
OutputTimes == [n \in 1..Len(history) |-> history[n].timeMs]
InputTimes  == [n \in 1..Len(btcKlines1s) |-> btcKlines1s[n].openTime]

\* C8: the output is never longer than the price samples, its timestamps are a
\* subsequence of the price-sample timestamps, and no price sample gives no output.
C8_OutputShape ==
    alignPc = "done" =>
        /\ Len(history) <= Len(btcKlines1s)
        /\ IsSubsequence(OutputTimes, InputTimes)
        /\ (btcKlines1s = <<>> => history = <<>>)

\* A downsampled output: two points emitted, one price sample left out.
C8_Witness ==
    /\ alignPc = "done"
    /\ Len(history) = 2
    /\ Len(btcKlines1s) = 3
    /\ \A n \in 1..3 : btcKlines1s[n].close # None

\* The position of the sample a point's value comes from: the last sample at
\* or before the point's timestamp, provided the point carries its value.
Carriers(pt) ==
    {i \in AtOrBefore(pt) :
        /\ IsSome(pt.poly) /\ Val(pt.poly) = polyHistory[i].p
        /\ \A j \in AtOrBefore(pt) : j <= i}

\* C9: with the prediction samples sorted ascending, once a point of the output
\* has a prediction value every later point has one, taken from the same or a
\* later prediction sample.
C9_MonotoneVisibility ==
    (alignPc = "done" /\ PredsSortedAsc) =>
        \A m, n \in 1..Len(history) :
            (m < n /\ IsSome(history[m].poly)) =>
                /\ IsSome(history[n].poly)
                /\ \E a \in Carriers(history[m]), b \in Carriers(history[n]) : a <= b

\* A null point, then a value, then the value of a newer sample.
C9_Witness ==
    /\ alignPc = "done"
    /\ PredsSortedAsc
    /\ Len(history) = 3
    /\ history[1].poly = None
    /\ IsSome(history[2].poly)
    /\ IsSome(history[3].poly)
    /\ Carriers(history[2]) = {1} /\ Carriers(history[3]) = {2}

\* C10: each emitted point is at least the sampling interval after the point
\* emitted before it, whatever the order of the price samples.
C10_Spacing ==
    alignPc = "done" =>
        \A n \in 2..Len(history) :
            history[n].timeMs >= history[n - 1].timeMs + 5000

\* Out-of-order price samples, one of them skipped, two points emitted.
C10_Witness ==
    /\ alignPc = "done"
    /\ \E a, b \in 1..Len(btcKlines1s) :
          /\ a < b
          /\ btcKlines1s[a].openTime > btcKlines1s[b].openTime
          /\ btcKlines1s[b].close # None
    /\ Len(history) = 2

----------------------------------------------------------------------------
(* ReferencePriceTracker: capture(currentPrice, marketId, windowStart), get() *)
(* The tracker's source is not among the files of the repository at hand;    *)
(* it is modelled from section 4.2 of the specification.                     *)

\* const windowMs = 15 * 60_000
windowMs == 900000

\* The decision of capture, mutated: every finite price is stored.
ShouldStoreAlways(price, marketId, windowStart) == NumberIsFinite(price)

\* The decision of capture, mutated: only a new window re-captures.
ShouldStoreOnWindowOnly(price, marketId, windowStart) ==
    /\ NumberIsFinite(price)
    /\ ~captured \/ recWindowStart # Some(windowStart)

\* The decision of capture, mutated: the price is not tested.
ShouldStoreNonFinite(price, marketId, windowStart) ==
    \/ ~captured
    \/ recWindowStart # Some(windowStart)
    \/ recMarketId # Some(marketId)

\* capture stores the price when it is finite and the tracker is empty, or the
\* window or the market differs from the one recorded at the last capture.
ShouldStore(price, marketId, windowStart) ==
    /\ NumberIsFinite(price)
    /\ \/ ~captured
       \/ recWindowStart # Some(windowStart)
       \/ recMarketId # Some(marketId)

\* capture(currentPrice, marketId, windowStart)
Capture(price, marketId, windowStart) ==
    /\ IF ShouldStore(price, marketId, windowStart)
       THEN /\ refPrice' = Some(price)
            /\ captured' = TRUE
            /\ recWindowStart' = Some(windowStart)
            /\ recMarketId' = Some(marketId)
       ELSE UNCHANGED <<refPrice, captured, recWindowStart, recMarketId>>
    /\ lastCapture' = Some([price |-> price, marketId |-> marketId,
                            windowStart |-> windowStart])
    /\ heldBefore' = [refPrice |-> refPrice, captured |-> captured,
                      recWindowStart |-> recWindowStart,
                      recMarketId |-> recMarketId]
    /\ UNCHANGED <<selVars, alignVars, dashVars>>
    /\ UNCHANGED <<routeVars, atrVars, wsVars, pollVars>>

\* get()
Get == refPrice

SpotPrices    == {Num(67000), Num(67100), Num(67200), NaN}
MarketIds     == {"btc-up-or-down-a", "btc-up-or-down-b", "btc-up-or-down-c"}
WindowStarts  == {0, windowMs}

RefSpecInit ==
    /\ RefInit /\ SelIdle /\ AlignIdle /\ DashInit
    /\ RouteIdle /\ AtrIdle /\ WsInit /\ PollInit

RefNext ==
    \E price \in SpotPrices, marketId \in MarketIds, windowStart \in WindowStarts :
        Capture(price, marketId, windowStart)

SpecRef == RefSpecInit /\ [][RefNext]_vars

\* The step is a capture call for the window and market already recorded.
SameKeyCall ==
    /\ captured
    /\ IsSome(lastCapture')
    /\ Some(Val(lastCapture').windowStart) = recWindowStart
    /\ Some(Val(lastCapture').marketId) = recMarketId

\* The step is a capture call for another window or another market than the
\* recorded one (or the first call ever).
ChangedKeyCall ==
    /\ IsSome(lastCapture')
    /\ \/ Some(Val(lastCapture').windowStart) # recWindowStart
       \/ Some(Val(lastCapture').marketId) # recMarketId

\* C6: once a price is captured for (windowStart, marketId), a further capture
\* call with the same windowStart and marketId changes nothing, whatever price
\* it passes: get() keeps returning the price captured first.
C6_SameKeyIsNoOp ==
    [][SameKeyCall =>
          /\ Get' = Get
          /\ UNCHANGED <<captured, recWindowStart, recMarketId>>]_vars

\* A reference is held and the last call passed another finite price for the
\* same window and market.
C6_Witness ==
    /\ captured
    /\ IsSome(lastCapture)
    /\ Some(Val(lastCapture).windowStart) = recWindowStart
    /\ Some(Val(lastCapture).marketId) = recMarketId
    /\ NumberIsFinite(Val(lastCapture).price)
    /\ Val(lastCapture).price # Val(refPrice)

\* C7 as claimed: the first capture call for another window or market
\* overwrites the reference with that call's price, whatever the price is:
\* after the call get() returns the price that was passed.
C7_AsClaimed ==
    [][ChangedKeyCall => Get' = Some(Val(lastCapture').price)]_vars

\* C7, amended: the first capture call with a finite price for another window
\* or another market than the recorded one overwrites the reference with that
\* call's price in the same step, and records the call's window and market.
C7_ReanchorOnChange ==
    [][(ChangedKeyCall /\ NumberIsFinite(Val(lastCapture').price)) =>
          /\ Get' = Some(Val(lastCapture').price)
          /\ captured'
          /\ recWindowStart' = Some(Val(lastCapture').windowStart)
          /\ recMarketId' = Some(Val(lastCapture').marketId)]_vars

\* A market rollover inside the second wall-clock window: the tracker held
\* 67000 for market a in that window when the last call came, for market b in
\* the same window with the price 67100; the reference is now 67100, recorded
\* for market b.
C7_Witness ==
    /\ heldBefore.captured
    /\ heldBefore.refPrice = Some(Num(67000))
    /\ heldBefore.recWindowStart = Some(windowMs)
    /\ heldBefore.recMarketId = Some("btc-up-or-down-a")
    /\ lastCapture = Some([price |-> Num(67100), marketId |-> "btc-up-or-down-b",
                           windowStart |-> windowMs])
    /\ captured
    /\ refPrice = Some(Num(67100))
    /\ recWindowStart = Some(windowMs)
    /\ recMarketId = Some("btc-up-or-down-b")

\* The step is a capture call whose price is NaN or not finite.
NonFiniteCall ==
    /\ IsSome(lastCapture')
    /\ ~NumberIsFinite(Val(lastCapture').price)

\* C18: a capture call with a NaN or non-finite price changes neither the
\* reference price nor the captured flag nor the recorded window and market,
\* also when the window or the market differs from the recorded one; the
\* price that get() returns is always one of the finite prices passed in.
C18_NonFiniteRejected ==
    [][/\ NonFiniteCall =>
              UNCHANGED <<refPrice, captured, recWindowStart, recMarketId>>
       /\ Get' # None =>
              \E p \in SpotPrices : NumberIsFinite(p) /\ p = Val(Get')]_vars

\* A reference is held for one market and window; the last call passed NaN for
\* another market and another window, and the reference is still the old one.
C18_Witness ==
    /\ captured
    /\ refPrice = Some(Num(67000))
    /\ IsSome(lastCapture)
    /\ Val(lastCapture).price = NaN
    /\ Some(Val(lastCapture).marketId) # recMarketId
    /\ Some(Val(lastCapture).windowStart) # recWindowStart

----------------------------------------------------------------------------
(* The polling dashboard: components/Dashboard.tsx                          *)

\* updated.length > 500 ? updated.slice(-500) : updated
HISTORY_CAP == 500

\* Date.toLocaleTimeString("en-US", {hour, minute, second, hour12: false}):
\* the time of day, to the second; the date and the milliseconds are lost.
LocaleTime(ms) == (ms \div 1000) % 86400

\* The seconds that pass between one reading of the wall clock and the next:
\* none, one (the timer on time) or several (the timer held up).
ClockSteps == {0, 1, 3}

\* new Date() in a settling fetchData, step seconds after the reading before:
\* the clock is read when the answer has arrived, and it never goes back.
WallClock(step) == (wallSecond + step) * 1000

\* JavaScript truthiness of a slug (string | null): null and "" are falsy.
SlugTruthy(slug) == slug # None /\ slug # Some("")

\* The reset test of the updater, mutated: the slugs are not compared.
MarketChangedNever(prev, currentSlug) == FALSE

\* prevMarketSlug.current && currentSlug !== prevMarketSlug.current
MarketChanged(prev, currentSlug) == SlugTruthy(prev) /\ currentSlug # prev

\* json.history.filter(h => h.poly !== null).map((h, i) => ({time, btc, poly, idx: i}))
SeedFrom(backfill) ==
    LET kept == SelectSeq(backfill, LAMBDA h : h.poly # None)
    IN  [i \in 1..Len(kept) |->
            [time |-> LocaleTime(kept[i].timeMs),
             btc  |-> kept[i].btc,
             poly |-> Val(kept[i].poly),
             idx  |-> i - 1]]

\* baseHistory of the updater, mutated: a non-empty backfill replaces the
\* buffer on every tick.
BaseHistoryReseeding(prev, json) ==
    LET afterReset == IF MarketChanged(prevMarketSlug, json.polymarket.slug)
                      THEN <<>> ELSE prev
    IN  IF Len(json.history) > 0
        THEN SeedFrom(json.history)
        ELSE afterReset

\* baseHistory of the setChartHistory updater, after the reset and the seeding.
BaseHistory(prev, json) ==
    LET afterReset == IF MarketChanged(prevMarketSlug, json.polymarket.slug)
                      THEN <<>> ELSE prev
    IN  IF Len(afterReset) = 0 /\ Len(json.history) > 0
        THEN SeedFrom(json.history)
        ELSE afterReset

\* The cap of the updater, mutated: the first 500 points are kept.
CapHistoryOldest(updated) ==
    IF Len(updated) > HISTORY_CAP
    THEN SubSeq(updated, 1, HISTORY_CAP)
    ELSE updated

\* updated.slice(-500) when updated is longer than 500
CapHistory(updated) ==
    IF Len(updated) > HISTORY_CAP
    THEN SubSeq(updated, Len(updated) - HISTORY_CAP + 1, Len(updated))
    ELSE updated

\* The slugs the points of the new buffer were recorded under: the points kept
\* from the old buffer keep theirs, the seed and the new point get currentSlug.
RecordedUnderAfter(json) ==
    LET currentSlug == json.polymarket.slug
        afterReset  == IF MarketChanged(prevMarketSlug, currentSlug)
                       THEN <<>> ELSE recordedUnder
        base        == IF Len(afterReset) = 0 /\ Len(json.history) > 0
                       THEN [i \in 1..Len(SeedFrom(json.history)) |-> currentSlug]
                       ELSE afterReset
    IN  CapHistory(Append(base, currentSlug))

(* Bound: the number of fetchData calls. *)
MaxTicks == 3

\* useEffect: fetchData() on mount and on every firing of setInterval(fetchData, 1000);
\* the call runs up to its first await.
StartFetch ==
    /\ ticks < MaxTicks
    /\ ticks' = ticks + 1
    /\ inFlight' = inFlight + 1
    /\ UNCHANGED <<chartHistory, prevMarketSlug, view, data, prevBtcPrice, atr, error,
                   recordedUnder, wallSecond>>
    /\ UNCHANGED <<selVars, alignVars, refVars, uiVars>>
    /\ UNCHANGED <<routeVars, atrVars, wsVars, pollVars>>

\* catch { setError(String(err)) }, mutated: the failure also clears the chart
\* and the observed slug.
FetchFailedClearing ==
    /\ inFlight > 0
    /\ inFlight' = inFlight - 1
    /\ error' = TRUE
    /\ chartHistory' = <<>>
    /\ prevMarketSlug' = None
    /\ recordedUnder' = <<>>
    /\ UNCHANGED <<view, data, prevBtcPrice, atr, ticks, wallSecond>>
    /\ UNCHANGED <<selVars, alignVars, refVars, uiVars>>
    /\ UNCHANGED <<routeVars, atrVars, wsVars, pollVars>>

\* fetch rejects, or res.ok is false, or res.json() rejects: catch { setError(String(err)) }
FetchFailed ==
    /\ inFlight > 0
    /\ inFlight' = inFlight - 1
    /\ error' = TRUE
    /\ UNCHANGED <<chartHistory, prevMarketSlug, view, data, prevBtcPrice, atr, ticks,
                   recordedUnder, wallSecond>>
    /\ UNCHANGED <<selVars, alignVars, refVars, uiVars>>
    /\ UNCHANGED <<routeVars, atrVars, wsVars, pollVars>>

\* setData(prev => { if (prev?.btcPrice) setPrevBtcPrice(prev.btcPrice);
\*                   if (json.atr !== undefined) setAtr(json.atr); return json; })
\* and setError(null).  Of the snapshot, data keeps btcPrice, polymarket and
\* history.
StoreSnapshot(json) ==
    /\ data' = Some([btcPrice |-> json.btcPrice, polymarket |-> json.polymarket,
                     history |-> json.history])
    /\ prevBtcPrice' = IF IsSome(data) /\ IsSome(Val(data).btcPrice)
                          /\ Val(Val(data).btcPrice) # 0
                       THEN Val(data).btcPrice
                       ELSE prevBtcPrice
    /\ atr' = IF IsSome(json.atr) THEN Val(json.atr) ELSE atr
    /\ error' = FALSE

\* The response arrived but btcPrice or polymarket.upPrice is null: the
\* snapshot is stored, the chart is left alone.
FetchedWithoutPoint(json) ==
    /\ inFlight > 0
    /\ json.btcPrice = None \/ json.polymarket.upPrice = None
    /\ inFlight' = inFlight - 1
    /\ StoreSnapshot(json)
    /\ UNCHANGED <<chartHistory, prevMarketSlug, view, ticks, recordedUnder,
                   wallSecond>>
    /\ UNCHANGED <<selVars, alignVars, refVars, uiVars>>
    /\ UNCHANGED <<routeVars, atrVars, wsVars, pollVars>>

\* The response arrived with btcPrice and polymarket.upPrice: the snapshot is
\* stored and the setChartHistory updater runs (reset, seed, append, cap, view).
FetchedWithPoint(json) ==
    /\ inFlight > 0
    /\ json.btcPrice # None /\ json.polymarket.upPrice # None
    /\ inFlight' = inFlight - 1
    /\ StoreSnapshot(json)
    /\ \E step \in ClockSteps :
          LET baseHistory == BaseHistory(chartHistory, json)
              newPoint    == [time |-> LocaleTime(WallClock(step)),
                              btc  |-> Val(json.btcPrice),
                              poly |-> Val(json.polymarket.upPrice),
                              idx  |-> Len(baseHistory)]
              final       == CapHistory(Append(baseHistory, newPoint))
          IN  /\ wallSecond' = wallSecond + step
              /\ chartHistory' = final
              /\ prevMarketSlug' = json.polymarket.slug
              /\ view' = IF view.hi = 0 \/ view.hi = Len(baseHistory)
                         THEN [lo |-> 0, hi |-> Len(final)]
                         ELSE view
    /\ recordedUnder' = RecordedUnderAfter(json)
    /\ UNCHANGED ticks
    /\ UNCHANGED <<selVars, alignVars, refVars, uiVars>>
    /\ UNCHANGED <<routeVars, atrVars, wsVars, pollVars>>

(* usePolymarketMarketPrices (part_004): a second polling hook. *)
\* const prices = await fetchPolymarketMarketPrices();
\* if (mounted && prices) { setData(prices); setLoading(false); }
\* prices is None when the fetch yielded null (no market, or any exception).
HookFetched(prices) ==
    /\ IF hookMounted /\ prices # None
       THEN /\ hookData' = prices
            /\ hookLoading' = FALSE
       ELSE UNCHANGED <<hookData, hookLoading>>
    /\ hookLast' = Some(prices)
    /\ UNCHANGED hookMounted
    /\ UNCHANGED <<selVars, alignVars, refVars, dashVars, routeVars, atrVars, wsVars>>

\* The effect's cleanup: mounted = false; clearInterval(interval).  A fetch
\* that is under way still settles afterwards.
HookUnmount ==
    /\ hookMounted
    /\ hookMounted' = FALSE
    /\ UNCHANGED <<hookData, hookLoading, hookLast>>
    /\ UNCHANGED <<selVars, alignVars, refVars, dashVars, routeVars, atrVars, wsVars>>

\* What fetchPolymarketMarketPrices resolves to, null apart.
HookPrices ==
    {[upPrice |-> Some(50), downPrice |-> Some(50), marketSlug |-> "btc-updown-15m-a"],
     [upPrice |-> None, downPrice |-> Some(48), marketSlug |-> "btc-updown-15m-a"]}

(* The snapshots the data route can answer with. *)
\* polymarket.slug is market.slug ?? null: a market without a slug gives null.
SlugValues == {None, Some("btc-updown-15m-a"), Some("btc-updown-15m-b")}
B0n == [timeMs |-> 0,    btc |-> 66900, poly |-> None]
B0v == [timeMs |-> 0,    btc |-> 66900, poly |-> Some(40)]
B5v == [timeMs |-> 5000, btc |-> 66950, poly |-> Some(45)]
Backfills == {<<>>, <<B0n>>, <<B0n, B5v>>, <<B0v, B5v>>}
\* atr: the field is missing (undefined), null, or a number.
AtrFields == {None, Some(None), Some(Some(150))}
Snapshots ==
    [btcPrice   : {None, Some(67000)},
     polymarket : [slug : SlugValues, upPrice : {None, Some(50)}],
     history    : Backfills,
     atr        : AtrFields]

DashSpecInit ==
    /\ DashInit /\ SelIdle /\ AlignIdle /\ RefInit
    /\ RouteIdle /\ AtrIdle /\ WsInit /\ PollInit

DashNext ==
    \/ StartFetch
    \/ FetchFailed
    \/ \E json \in Snapshots : FetchedWithoutPoint(json)
    \/ \E json \in Snapshots : FetchedWithPoint(json)

SpecDash == DashSpecInit /\ [][DashNext]_vars

\* C5: the chart buffer never holds points recorded under two different market
\* slugs: a tick whose slug differs from the slug observed on the previous tick
\* clears the buffer before it appends its point.
C5_SingleMarketBuffer ==
    /\ Len(recordedUnder) = Len(chartHistory)
    /\ \A i, j \in 1..Len(recordedUnder) : recordedUnder[i] = recordedUnder[j]

(* The dashboard on the answers of the data route as it is: the route of    *)
(* app/api/data/route.ts sends no atr field.                                *)
RouteSnapshots == {json \in Snapshots : json.atr = None}

SeedNext ==
    \/ StartFetch
    \/ FetchFailed
    \/ \E json \in RouteSnapshots : FetchedWithoutPoint(json)
    \/ \E json \in RouteSnapshots : FetchedWithPoint(json)

SpecSeed == DashSpecInit /\ [][SeedNext]_vars

\* The step settles a fetchData call whose snapshot has a spot price and an Up
\* price; the snapshot is then Val(data').
SettledWithPoint ==
    /\ inFlight' < inFlight
    /\ ~error'
    /\ IsSome(data')
    /\ Val(data').btcPrice # None
    /\ Val(data').polymarket.upPrice # None

\* The tick that stored snapshot json found the buffer empty: it was empty
\* before, or the snapshot's slug differs from a non-empty slug observed before.
FoundEmpty(json) ==
    \/ chartHistory = <<>>
    \/ /\ prevMarketSlug \notin {None, Some("")}
       /\ json.polymarket.slug # prevMarketSlug

\* Point pt carries the live values of snapshot json.
IsLivePoint(pt, json) ==
    pt.btc = Val(json.btcPrice) /\ pt.poly = Val(json.polymarket.upPrice)

\* Point pt is the backfill point h, its time of day kept to the second.
IsBackfillPoint(pt, h) ==
    /\ pt.btc = h.btc
    /\ pt.poly = Val(h.poly)
    /\ pt.time = (h.timeMs \div 1000) % 86400

\* C24: a tick seeds the buffer from the backfill only when it finds the buffer
\* empty (at the start or after a reset) and the backfill is non-empty; the
\* buffer is then exactly the backfill points with a non-null prediction, in
\* their order, followed by the live point.  A tick that finds a non-empty
\* buffer ignores the backfill and appends exactly one point (the buffer being
\* below its cap).
C24_SeedOncePerReset ==
    [][SettledWithPoint =>
          LET json == Val(data')
              kept == SelectSeq(json.history, LAMBDA h : h.poly # None)
              n    == Len(chartHistory')
          IN  /\ n >= 1 /\ IsLivePoint(chartHistory'[n], json)
              /\ (FoundEmpty(json) /\ json.history # <<>>) =>
                     /\ n = Len(kept) + 1
                     /\ \A i \in 1..Len(kept) : IsBackfillPoint(chartHistory'[i], kept[i])
              /\ (FoundEmpty(json) /\ json.history = <<>>) => n = 1
              /\ (~FoundEmpty(json) /\ Len(chartHistory) < HISTORY_CAP) =>
                     /\ n = Len(chartHistory) + 1
                     /\ SubSeq(chartHistory', 1, n - 1) = chartHistory]_vars

\* The first tick seeded the buffer with the one backfill point that has a
\* prediction and added its live point; the second tick, whose snapshot
\* carried the same backfill, only appended its live point.
C24_Witness ==
    /\ ticks = 2 /\ inFlight = 0 /\ ~error
    /\ IsSome(data) /\ Val(data).history = <<B0n, B5v>>
    /\ Len(chartHistory) = 3
    /\ IsBackfillPoint(chartHistory[1], B5v)
    /\ IsLivePoint(chartHistory[2], Val(data))
    /\ IsLivePoint(chartHistory[3], Val(data))
    /\ [i \in 1..3 |-> chartHistory[i].idx] = <<0, 1, 2>>

(* The two polling callbacks side by side: fetchData of the dashboard and    *)
(* the fetch of usePolymarketMarketPrices.  The snapshots are those of the   *)
(* data route as it is (no atr field), without backfill or with a full one.  *)
PollSnapshots == {json \in Snapshots : json.atr = None /\ json.history \in {<<>>, <<B0v, B5v>>}}

PollingNext ==
    \/ StartFetch
    \/ FetchFailed
    \/ \E json \in PollSnapshots : FetchedWithoutPoint(json)
    \/ \E json \in PollSnapshots : FetchedWithPoint(json)
    \/ \E prices \in {None} \cup {Some(pr) : pr \in HookPrices} : HookFetched(prices)
    \/ HookUnmount

SpecPolling == DashSpecInit /\ [][PollingNext]_vars

\* The step settles a fetchData call that failed, or whose snapshot has a null
\* spot price or a null Up price.
SettledWithoutPoint ==
    /\ inFlight' < inFlight
    /\ \/ error'
       \/ /\ IsSome(data')
          /\ \/ Val(data').btcPrice = None
             \/ Val(data').polymarket.upPrice = None

\* C15: a tick whose fetch fails, or whose snapshot has no spot price or no Up
\* price, leaves the chart buffer and the observed slug as they were (a
\* snapshot that arrived is still stored); a hook fetch that yields null leaves
\* the stored prices as they were.
C15_FailureKeepsState ==
    [][/\ SettledWithoutPoint =>
              /\ UNCHANGED <<chartHistory, prevMarketSlug>>
              /\ ~error' => IsSome(data')
       /\ hookLast' = Some(None) => hookData' = hookData]_vars

\* The chart holds points of a market, the latest fetch failed, and the hook
\* holds prices although its latest fetch yielded null.
C15_Witness ==
    /\ Len(chartHistory) >= 2
    /\ IsSome(prevMarketSlug)
    /\ error
    /\ hookLast = Some(None)
    /\ IsSome(hookData)

\* C16: at most one fetchData call is in flight at any time.
C16_TicksSerialized == inFlight <= 1

----------------------------------------------------------------------------
(* The chart's view window and the multiplier input of the dashboard.       *)
(* N of the code is chartHistory.length of the latest render.  The cursor    *)
(* position and the drag distance are given in halves of the chart width.    *)

\* const MIN_VISIBLE = 6
MIN_VISIBLE == 6

\* Math.round(k / 2) for an integer k: the nearest integer, a half rounded up.
RoundHalves(k) == (k + 1) \div 2

\* Math.round(visible * factor) with factor 1.15 or 0.87, given in hundredths.
\* (Exact for the window sizes of the model, which stay below 10.)
RoundScaled(visible, hundredths) == (visible * hundredths + 50) \div 100

\* clamp(lo, hi): size = hi - lo; newLo = Math.max(0, Math.min(N - size, lo))
clamp(lo, hi, N) ==
    LET size  == hi - lo
        newLo == Max2(0, Min2(N - size, lo))
    IN  [lo |-> newLo, hi |-> newLo + size]

\* pxToCandles(dx, currentView) = Math.round((dx / chartWidth()) * visible)
pxToCandles(dxHalves, currentView) ==
    RoundHalves(dxHalves * (currentView.hi - currentView.lo))

ViewFrame ==
    /\ UNCHANGED <<chartHistory, prevMarketSlug, data, prevBtcPrice, atr, error,
                   inFlight, ticks, recordedUnder, wallSecond>>
    /\ UNCHANGED <<selVars, alignVars, refVars, routeVars, atrVars, wsVars, pollVars>>

\* onWheel: the setView updater.  zoomOut is e.deltaY > 0; cursorHalves / 2 is
\* cursorFrac, already clamped to 0 .. 1.
OnWheel(zoomOut, cursorHalves) ==
    /\ LET N          == Len(chartHistory)
           visible    == view.hi - view.lo
           scaled     == RoundScaled(visible, IF zoomOut THEN 115 ELSE 87)
           newVisible == Max2(MIN_VISIBLE, Min2(N, scaled))
           anchorIdx  == view.lo + RoundHalves(cursorHalves * visible)
           newLo      == RoundHalves(2 * anchorIdx - cursorHalves * newVisible)
       IN  view' = clamp(newLo, newLo + newVisible, N)
    /\ UNCHANGED <<atrMultiplier, dragRef>>
    /\ ViewFrame

\* onMouseDown with the left button: dragRef.current = {startX, startLo, startHi}
OnMouseDown ==
    /\ dragRef' = Some([startLo |-> view.lo, startHi |-> view.hi])
    /\ UNCHANGED <<view, atrMultiplier>>
    /\ ViewFrame

\* onMouseMove while dragging; dxHalves / 2 is (startX - e.clientX) / chartWidth().
OnMouseMove(dxHalves) ==
    /\ dragRef # None
    /\ LET startLo == Val(dragRef).startLo
           startHi == Val(dragRef).startHi
           delta   == pxToCandles(dxHalves, [lo |-> startLo, hi |-> startHi])
           size    == startHi - startLo
       IN  view' = clamp(startLo + delta, startLo + delta + size, Len(chartHistory))
    /\ UNCHANGED <<atrMultiplier, dragRef>>
    /\ ViewFrame

\* onMouseUp, onMouseLeave and the global mouseup listener: dragRef.current = null
OnMouseUp ==
    /\ dragRef # None
    /\ dragRef' = None
    /\ UNCHANGED <<view, atrMultiplier>>
    /\ ViewFrame

\* isZoomed = N > 0 && (view.lo !== 0 || view.hi !== N)
isZoomed == Len(chartHistory) > 0 /\ (view.lo # 0 \/ view.hi # Len(chartHistory))

\* resetZoom (its button is rendered while isZoomed): setView({lo: 0, hi: N})
ResetZoom ==
    /\ isZoomed
    /\ view' = [lo |-> 0, hi |-> Len(chartHistory)]
    /\ UNCHANGED <<atrMultiplier, dragRef>>
    /\ ViewFrame

\* parseFloat(e.target.value) on the texts of the model, in hundredths.  The
\* value of a number input is "" when what was typed is not a number.
ParseFloat(text) ==
    CASE text = "0"    -> Num(0)
      [] text = "0.75" -> Num(75)
      [] text = "2"    -> Num(200)
      [] text = "-1"   -> Num(-100)
      [] OTHER         -> NaN

\* x || 0 for a number x: NaN and 0 are falsy.
OrZero(x) == IF NumberIsFinite(x) /\ x.v # 0 THEN x.v ELSE 0

\* onChange of the multiplier input:
\* setAtrMultiplier(parseFloat(e.target.value) || 0)
EditMultiplier(text) ==
    /\ atrMultiplier' = OrZero(ParseFloat(text))
    /\ UNCHANGED <<view, dragRef>>
    /\ ViewFrame

\* What the user leaves in the multiplier input.
MultiplierTexts == {"", "0", "0.75", "2", "-1"}

\* The snapshots of a route that always has prices: two markets, without
\* backfill or with a full one.
ViewSnapshots ==
    {json \in PollSnapshots : /\ json.btcPrice # None
                              /\ json.polymarket.upPrice # None
                              /\ json.polymarket.slug # None}

ViewNext ==
    \/ StartFetch
    \/ \E json \in ViewSnapshots : FetchedWithPoint(json)
    \/ \E zoomOut \in BOOLEAN, cursorHalves \in 0..2 : OnWheel(zoomOut, cursorHalves)
    \/ OnMouseDown
    \/ \E dxHalves \in -2..2 : OnMouseMove(dxHalves)
    \/ OnMouseUp
    \/ ResetZoom
    \/ \E text \in MultiplierTexts : EditMultiplier(text)

SpecView == DashSpecInit /\ [][ViewNext]_vars

(* The dashboard after a long run: the buffer near its cap.                  *)
\* The snapshot of a route that has both prices of market a and no backfill.
SteadySnapshot ==
    [btcPrice   |-> Some(67000),
     polymarket |-> [slug |-> Some("btc-updown-15m-a"), upPrice |-> Some(50)],
     history    |-> <<>>,
     atr        |-> None]

\* The buffer after n ticks, one a second and one at a time, that all answered
\* SteadySnapshot, for n <= 500: tick k appended the point with idx k - 1.
SteadyHistory(n) ==
    [k \in 1..n |-> [time |-> LocaleTime(k * 1000), btc |-> 67000, poly |-> 50,
                     idx  |-> k - 1]]

\* The numbers of ticks that have passed when the run starts.
SteadyTicks == {HISTORY_CAP - 1, HISTORY_CAP}

\* The dashboard after n such ticks (n >= 2), no call in flight.
CapInit ==
    /\ \E n \in SteadyTicks :
          /\ chartHistory = SteadyHistory(n)
          /\ recordedUnder = [k \in 1..n |-> SteadySnapshot.polymarket.slug]
          /\ view = [lo |-> 0, hi |-> n]
          /\ wallSecond = n
    /\ prevMarketSlug = SteadySnapshot.polymarket.slug
    /\ data = Some([btcPrice   |-> SteadySnapshot.btcPrice,
                    polymarket |-> SteadySnapshot.polymarket,
                    history    |-> SteadySnapshot.history])
    /\ prevBtcPrice = SteadySnapshot.btcPrice
    /\ atr = None
    /\ error = FALSE
    /\ inFlight = 0
    /\ ticks = 0
    /\ atrMultiplier = 50
    /\ dragRef = None
    /\ SelIdle /\ AlignIdle /\ RefInit
    /\ RouteIdle /\ AtrIdle /\ WsInit /\ PollInit

CapNext ==
    \/ StartFetch
    \/ FetchFailed
    \/ \E json \in ViewSnapshots : FetchedWithPoint(json)

SpecCap == CapInit /\ [][CapNext]_vars

\* C25: the buffer never holds more than 500 points.  A tick that adds a point
\* without a reset keeps the points that were there, in their order, and puts
\* its point last: all of them while there is room, and all but the oldest
\* when the buffer is full, so that the most recent 500 points remain.  Any
\* other step leaves the buffer as it was.
C25_BoundedAppendOnly ==
    /\ [](Len(chartHistory) <= 500)
    /\ [][IF SettledWithPoint
           THEN ~FoundEmpty(Val(data')) =>
                   /\ IsLivePoint(chartHistory'[Len(chartHistory')], Val(data'))
                   /\ Len(chartHistory) < 500 =>
                          /\ Len(chartHistory') = Len(chartHistory) + 1
                          /\ SubSeq(chartHistory', 1, Len(chartHistory)) = chartHistory
                   /\ Len(chartHistory) = 500 =>
                          /\ Len(chartHistory') = 500
                          /\ SubSeq(chartHistory', 1, 499) = SubSeq(chartHistory, 2, 500)
           ELSE chartHistory' = chartHistory]_vars

\* The buffer is full and its oldest point has been dropped: the first point
\* is the one of the second tick, the last the one of tick 501.
C25_Witness ==
    /\ Len(chartHistory) = 500
    /\ wallSecond = 501
    /\ inFlight = 0
    /\ chartHistory[1].time = 2
    /\ chartHistory[500].time = 501
    /\ \A i \in 1..499 : chartHistory[i + 1].time = chartHistory[i].time + 1

\* C30: the idx values of the buffer's points are strictly increasing from the
\* first point to the last.
C30_IdxStrictlyIncreasing ==
    \A i \in 1..(Len(chartHistory) - 1) : chartHistory[i].idx < chartHistory[i + 1].idx

\* C29: the view window lies inside the buffer: 0 <= view.lo <= view.hi <= N.
C29_ViewInsideHistory ==
    /\ 0 <= view.lo
    /\ view.lo <= view.hi
    /\ view.hi <= Len(chartHistory)

\* C27: the stored multiplier is never negative.
C27_MultiplierNonNegative == atrMultiplier >= 0

----------------------------------------------------------------------------
(* GET of app/api/data/route.ts: one execution of the handler, in the three *)
(* turns its two awaits divide it into.  The inputs are the readings of     *)
(* Date.now() (line 172, the default argument of pickLatestLiveMarket at    *)
(* line 182 and, for a selected market, line 236), one in each turn, and    *)
(* what the upstream fetches answer.  The handler keeps no state outside    *)
(* its locals, so executions that overlap do not affect one another.  The   *)
(* timestamp field of the                                                   *)
(* answer (one more clock reading, only formatted) is left out.             *)

(* A numeric field of a market: undefined (missing), null, or a number. *)
JsUndefined == [kind |-> "undefined", v |-> 0]
JsNull      == [kind |-> "null", v |-> 0]
JsNumber(n) == [kind |-> "number", v |-> n]

\* toNumber(x): n = Number(x); Number.isFinite(n) ? n : null.
\* Number(undefined) is NaN, Number(null) is 0, a number is itself.
toNumber(x) ==
    CASE x.kind = "undefined" -> None
      [] x.kind = "null"      -> Some(0)
      [] x.kind = "number"    -> Some(x.v)

\* x ?? y, mutated: the right operand is always taken.
CoalesceSecond(x, y) == y

\* x ?? y
Coalesce(x, y) == IF x # None THEN x ELSE y

\* n / 60_000 as the exact fraction: minutes are kept with their denominator.
Over60000(n) == [num |-> n, den |-> 60000]

\* Math.floor(nowMs / windowMs) * windowMs, mutated: rounded up.
WindowStartCeil(now) == ((now + windowMs - 1) \div windowMs) * windowMs

\* Math.floor(nowMs / windowMs) * windowMs, for nowMs >= 0
WindowStartOf(now) == (now \div windowMs) * windowMs

(* An outcome label is [isString, chars]: a string is the sequence of its   *)
(* characters; a label that is not a string (a number of a JSON-encoded      *)
(* outcomes field) has isString = FALSE.                                     *)
Str(chars)  == [isString |-> TRUE, chars |-> chars]
NotAString  == [isString |-> FALSE, chars |-> <<>>]

\* The lower-case letter of an upper-case letter; every other character is
\* its own lower case.
LowerChar(c) ==
    CASE c = "A" -> "a" [] c = "B" -> "b" [] c = "C" -> "c" [] c = "D" -> "d"
      [] c = "E" -> "e" [] c = "F" -> "f" [] c = "G" -> "g" [] c = "H" -> "h"
      [] c = "I" -> "i" [] c = "J" -> "j" [] c = "K" -> "k" [] c = "L" -> "l"
      [] c = "M" -> "m" [] c = "N" -> "n" [] c = "O" -> "o" [] c = "P" -> "p"
      [] c = "Q" -> "q" [] c = "R" -> "r" [] c = "S" -> "s" [] c = "T" -> "t"
      [] c = "U" -> "u" [] c = "V" -> "v" [] c = "W" -> "w" [] c = "X" -> "x"
      [] c = "Y" -> "y" [] c = "Z" -> "z" [] OTHER -> c

\* String.prototype.toLowerCase, mutated: the characters are kept as they are.
ToLowerCaseKeep(chars) == chars

\* String.prototype.toLowerCase on the characters of a string.
ToLowerCase(chars) == [i \in 1..Len(chars) |-> LowerChar(chars[i])]

\* for (let i = 0; i < outcomes.length; i++) { label = outcomes[i].toLowerCase();
\*   tokenId = clobTokenIds[i] || null; if (!tokenId) continue;
\*   if (label === "up") upTokenId = tokenId; if (label === "down") downTokenId = tokenId; }
\* outcomes[i].toLowerCase() throws a TypeError when outcomes[i] is not a
\* string: the result then has threw = TRUE.
RECURSIVE MatchTokens(_, _, _, _)
MatchTokens(outcomes, clobTokenIds, i, acc) ==
    IF i > Len(outcomes) THEN acc
    ELSE IF ~outcomes[i].isString THEN [acc EXCEPT !.threw = TRUE]
    ELSE LET label   == ToLowerCase(outcomes[i].chars)
             tokenId == IF i <= Len(clobTokenIds) /\ clobTokenIds[i] # ""
                        THEN Some(clobTokenIds[i]) ELSE None
         IN  IF tokenId = None
             THEN MatchTokens(outcomes, clobTokenIds, i + 1, acc)
             ELSE MatchTokens(outcomes, clobTokenIds, i + 1,
                      [up    |-> IF label = <<"u", "p">> THEN tokenId ELSE acc.up,
                       down  |-> IF label = <<"d", "o", "w", "n">>
                                 THEN tokenId ELSE acc.down,
                       threw |-> FALSE])

\* upTokenId and downTokenId after lines 184-197; market is None or Some(market).
TokenIds(market) ==
    IF market = None
    THEN [up |-> None, down |-> None, threw |-> FALSE]
    ELSE MatchTokens(Val(market).outcomes, Val(market).clobTokenIds, 1,
                     [up |-> None, down |-> None, threw |-> FALSE])

\* An upstream request: its kind and the token id it names, if any.
Request(kind, token) == [kind |-> kind, token |-> token]

\* The requests of the first await: the spot price and the events (lines 176-179).
FirstRequests == {Request("btc-price", None), Request("events", None)}

\* The requests of the second await: the klines, and per token id that is set
\* a price request and, for the Up token, the price history (lines 199-210).
SecondRequests(tok) ==
    {Request("klines", None)}
    \cup (IF tok.up # None
          THEN {Request("price", tok.up), Request("prices-history", tok.up)}
          ELSE {})
    \cup (IF tok.down # None THEN {Request("price", tok.down)} ELSE {})

\* parsePriceToBeat(market): the first "$ number" of the question text.  A
\* question of the model is [text, dollar], dollar being that number if any.
parsePriceToBeat(m) ==
    IF m.question = None THEN None ELSE Val(m.question).dollar

\* The initial value of polyData, mutated: the time left starts at zero.
EmptyPolyDataZeroTime ==
    [question |-> None, slug |-> None, endDate |-> None, eventStartTime |-> None,
     upPrice |-> None, downPrice |-> None, liquidity |-> None, priceToBeat |-> None,
     timeLeftMin |-> Some(Over60000(0))]

\* The initial value of polyData (lines 222-232).
EmptyPolyData ==
    [question |-> None, slug |-> None, endDate |-> None, eventStartTime |-> None,
     upPrice |-> None, downPrice |-> None, liquidity |-> None, priceToBeat |-> None,
     timeLeftMin |-> None]

\* endMs ? (endMs - Date.now()) / 60_000 : null, with
\* endMs = market.endDate ? new Date(market.endDate).getTime() : null.
\* null, NaN and 0 are falsy.
MarketTimeLeftMin(m, now) ==
    IF DateFalsy(m.endDate) THEN None
    ELSE LET endMs == DateGetTime(m.endDate)
         IN  IF ~NumberIsFinite(endMs) \/ endMs.v = 0 THEN None
             ELSE Some(Over60000(endMs.v - now))

\* Line 236 calls Date.now() only inside if (market), and only when endMs is
\* truthy; market is None or Some(market).
ReadsClock(market) ==
    market # None /\ MarketTimeLeftMin(Val(market), 0) # None

\* A date field copied with ?? null: only undefined and null become null,
\* the string "" is copied.
DateOrNull(x) == IF x.kind = "absent" THEN None ELSE Some(x)

\* polyData after lines 234-250.
PolyDataOf(market, upPrice, downPrice, now) ==
    IF market = None
    THEN EmptyPolyData
    ELSE LET m == Val(market)
         IN  [question       |-> IF m.question = None THEN None
                                 ELSE Some(Val(m.question).text),
              slug           |-> m.slug,
              endDate        |-> DateOrNull(m.endDate),
              eventStartTime |-> DateOrNull(m.eventStartTime),
              upPrice        |-> upPrice,
              downPrice      |-> downPrice,
              liquidity      |-> Coalesce(toNumber(m.liquidityNum), toNumber(m.liquidity)),
              priceToBeat    |-> parsePriceToBeat(m),
              timeLeftMin    |-> MarketTimeLeftMin(m, now)]

(* The inputs of GET. *)
\* Markets of the 15 minute series as the events endpoint lists them.
MktA == [endDate |-> DateStr(1800000), eventStartTime |-> DateStr(900000),
         slug |-> Some("btc-updown-15m-a"),
         question |-> Some([text |-> "Bitcoin above $67,000?", dollar |-> Some(67000)]),
         outcomes |-> <<Str(<<"U", "p">>), Str(<<"D", "o", "w", "n">>)>>,
         clobTokenIds |-> <<"tok-a-up", "tok-a-down">>,
         liquidityNum |-> JsNumber(1000), liquidity |-> JsUndefined]
MktB == [endDate |-> DateStr(2700000), eventStartTime |-> DateStr(1800000),
         slug |-> Some("btc-updown-15m-b"),
         question |-> Some([text |-> "Bitcoin Up or Down", dollar |-> None]),
         outcomes |-> <<Str(<<"U", "p">>), Str(<<"D", "o", "w", "n">>)>>,
         clobTokenIds |-> <<"tok-b-up", "tok-b-down">>,
         liquidityNum |-> JsUndefined, liquidity |-> JsNumber(800)]
\* A market without an end date.
MktNoEnd == [endDate |-> Absent, eventStartTime |-> DateStr(900000),
             slug |-> Some("btc-updown-15m-c"),
             question |-> Some([text |-> "Bitcoin Up or Down", dollar |-> None]),
             outcomes |-> <<Str(<<"U", "p">>), Str(<<"D", "o", "w", "n">>)>>,
             clobTokenIds |-> <<"tok-c-up", "tok-c-down">>,
             liquidityNum |-> JsNumber(500), liquidity |-> JsUndefined]
\* A market that only has dates, and outcomes that are not Up / Down.
MktBare == [endDate |-> DateStr(1800000), eventStartTime |-> Absent,
            slug |-> None, question |-> None,
            outcomes |-> <<Str(<<"Y", "e", "s">>), Str(<<"N", "o">>)>>,
            clobTokenIds |-> <<"tok-d-yes", "tok-d-no">>,
            liquidityNum |-> JsUndefined, liquidity |-> JsUndefined]
\* A market whose labels are written in other cases and in the other order.
MktMixed == [endDate |-> DateStr(1800000), eventStartTime |-> DateStr(900000),
             slug |-> Some("btc-updown-15m-e"),
             question |-> Some([text |-> "Bitcoin Up or Down", dollar |-> None]),
             outcomes |-> <<Str(<<"d", "O", "w", "N">>), Str(<<"u", "P">>)>>,
             clobTokenIds |-> <<"tok-e-down", "tok-e-up">>,
             liquidityNum |-> JsNumber(700), liquidity |-> JsUndefined]
\* A market whose Down outcome has an empty token id, whose start time is the
\* string "" and whose liquidityNum is null.
MktHalf == [endDate |-> DateStr(1800000), eventStartTime |-> EmptyDate,
            slug |-> Some("btc-updown-15m-f"),
            question |-> Some([text |-> "Bitcoin Up or Down", dollar |-> None]),
            outcomes |-> <<Str(<<"U", "P">>), Str(<<"D", "o", "w", "n">>)>>,
            clobTokenIds |-> <<"tok-f-up", "">>,
            liquidityNum |-> JsNull, liquidity |-> JsNumber(800)]
\* A market whose outcomes field is the JSON text of an array of numbers.
MktNumbers == [endDate |-> DateStr(1800000), eventStartTime |-> DateStr(900000),
               slug |-> Some("btc-updown-15m-g"),
               question |-> Some([text |-> "Bitcoin Up or Down", dollar |-> None]),
               outcomes |-> <<NotAString, NotAString>>,
               clobTokenIds |-> <<"tok-g-0", "tok-g-1">>,
               liquidityNum |-> JsNumber(400), liquidity |-> JsUndefined]
RouteMarketValues == {MktA, MktB, MktNoEnd, MktBare, MktMixed, MktHalf, MktNumbers}

(* Bound: the number of markets listed. *)
MaxRouteMarkets == 2

\* The first clock reading, and the time that passes between one reading of
\* the clock and the next.
RouteNowValues == {0, 930000, 1799500, 2700000}
RouteDelays    == {0, 1000}

\* An entry of the events answer: null, or an event with its markets.
NullEvent  == [isNull |-> TRUE, markets |-> <<>>]
Event(ms)  == [isNull |-> FALSE, markets |-> ms]

\* fetchLiveEvents: the array the events endpoint answered ([] on any
\* failure); its entries are not looked at.
EventsValues ==
    {<<>>, <<NullEvent>>}
    \cup {<<Event(ms)>> : ms \in SeqsUpTo(RouteMarketValues, MaxRouteMarkets)}

\* flattenEventMarkets(events): the markets of all events in order.  Reading
\* ev.markets of a null entry throws a TypeError: threw = TRUE.
RECURSIVE flattenEventMarkets(_)
flattenEventMarkets(events) ==
    IF events = <<>> THEN [threw |-> FALSE, out |-> <<>>]
    ELSE IF Head(events).isNull THEN [threw |-> TRUE, out |-> <<>>]
    ELSE LET rest == flattenEventMarkets(Tail(events))
         IN  [threw |-> rest.threw,
              out   |-> IF rest.threw THEN <<>> ELSE Head(events).markets \o rest.out]

\* fetchBinancePrice and fetchClobPrice: null on any failure.
BtcPriceValues  == {None, Some(67000)}
ClobPriceValues == {None, Some(50)}
\* fetchBinanceKlines and fetchPolymarketPriceHistory ([] on any failure),
\* given relative to the start of the window that was asked for.
KlinesValues == {<<>>, <<[off |-> 0, close |-> Some(66900)],
                         [off |-> 5000, close |-> Some(66950)]>>}
PriceHistoryValues == {<<>>, <<[offSec |-> 3, p |-> 45]>>}

\* Nothing has been answered yet.
NoUpstream ==
    [btcPrice |-> None, upBuy |-> None, downBuy |-> None, klines |-> <<>>,
     priceHistory |-> <<>>]

RouteInit ==
    /\ markets = <<>>
    /\ clock = <<>>
    /\ upstream = NoUpstream
    /\ nowMs = 0
    /\ picked = None
    /\ selPc = "idle"
    /\ AlignIdle
    /\ windowEndMs = 0
    /\ response = None
    /\ requested = {}
    /\ routePc = "input"
    /\ RefInit /\ DashInit /\ AtrIdle /\ WsInit /\ PollInit

\* The market the selector returned: None for null.
PickedMarket(ms, pick) == IF pick = None THEN None ELSE Some(ms[Val(pick)])

\* GET, lines 169-179: the window of the first clock reading, and the first
\* two requests; the handler then awaits their answers.
GetBegin ==
    /\ routePc = "input"
    /\ \E now1 \in RouteNowValues :
          /\ clock' = <<now1>>
          /\ windowStartMs' = WindowStartOf(now1)
          /\ windowEndMs' = WindowStartOf(now1) + windowMs
    /\ requested' = FirstRequests
    /\ routePc' = "events"
    /\ UNCHANGED <<selVars, btcKlines1s, polyHistory, polyHistoryMs, history, alignPc>>
    /\ UNCHANGED <<upstream, response>>
    /\ UNCHANGED <<refVars, dashVars, atrVars, wsVars, pollVars>>

\* GET, lines 181-210, run when the spot price and the events have been
\* answered: the markets are flattened, one is selected at the second clock
\* reading, its tokens are matched and the second batch of requests is
\* issued; the handler then awaits their answers.
GetAfterEvents ==
    /\ routePc = "events"
    /\ \E btcPrice \in BtcPriceValues, events \in EventsValues, d \in RouteDelays :
          LET flat   == flattenEventMarkets(events)
              now2   == clock[1] + d
              pick   == pickLatestLiveMarket(flat.out, now2)
              tok    == TokenIds(PickedMarket(flat.out, pick))
          IN  /\ ~flat.threw
              /\ ~tok.threw
              /\ upstream' = [upstream EXCEPT !.btcPrice = btcPrice]
              /\ markets' = flat.out
              /\ clock' = Append(clock, now2)
              /\ nowMs' = now2
              /\ picked' = pick
              /\ requested' = requested \cup SecondRequests(tok)
    /\ routePc' = "prices"
    /\ UNCHANGED <<selPc, alignVars, windowEndMs, response>>
    /\ UNCHANGED <<refVars, dashVars, atrVars, wsVars, pollVars>>

\* The answer of the catch clause, lines 286-288; error is String(err).
ErrorResponse == [status |-> 500, error |-> "TypeError"]

\* GET, lines 181-197 and 286-288: flattening the events or lower-casing an
\* outcome label throws; the catch clause answers with status 500, and no
\* further request is issued.
GetCatch ==
    /\ routePc = "events"
    /\ \E btcPrice \in BtcPriceValues, events \in EventsValues, d \in RouteDelays :
          LET flat   == flattenEventMarkets(events)
              now2   == clock[1] + d
              pick   == pickLatestLiveMarket(flat.out, now2)
              tok    == TokenIds(PickedMarket(flat.out, pick))
          IN  /\ upstream' = [upstream EXCEPT !.btcPrice = btcPrice]
              /\ \/ /\ flat.threw
                    /\ UNCHANGED <<markets, clock, nowMs, picked>>
                 \/ /\ ~flat.threw
                    /\ tok.threw
                    /\ markets' = flat.out
                    /\ clock' = Append(clock, now2)
                    /\ nowMs' = now2
                    /\ picked' = pick
    /\ response' = Some(ErrorResponse)
    /\ routePc' = "done"
    /\ UNCHANGED <<selPc, alignVars, windowEndMs, requested>>
    /\ UNCHANGED <<refVars, dashVars, atrVars, wsVars, pollVars>>

\* GET, lines 212-285, run when the second batch has been answered: the
\* market's fields with the time left at the third clock reading, the
\* aligned history and the answer.  The third reading is taken only for a
\* selected market (line 236).  A price that was not asked for is null, a
\* price history that was not asked for is [].
GetAfterPrices ==
    /\ routePc = "prices"
    /\ LET market == PickedMarket(markets, picked)
           tok    == TokenIds(market)
           wStart == windowStartMs
       IN  \E upPrice \in IF tok.up # None THEN ClobPriceValues ELSE {None},
              downPrice \in IF tok.down # None THEN ClobPriceValues ELSE {None},
              rawKlines \in KlinesValues,
              rawHistory \in IF tok.up # None THEN PriceHistoryValues ELSE {<<>>},
              d \in IF ReadsClock(market) THEN RouteDelays ELSE {0} :
              LET klines   == [i \in 1..Len(rawKlines) |->
                                  [openTime |-> wStart + rawKlines[i].off,
                                   close    |-> rawKlines[i].close]]
                  ph       == [i \in 1..Len(rawHistory) |->
                                  [t |-> WideOf(wStart \div 1000 + rawHistory[i].offSec),
                                   p |-> rawHistory[i].p]]
                  now3     == clock[2] + d
                  polyData == PolyDataOf(market, upPrice, downPrice, now3)
                  hist     == AlignedHistory(klines, ph, wStart)
                  candleTimeLeftMin == Over60000(windowEndMs - clock[1])
              IN  /\ upstream' = [upstream EXCEPT !.upBuy = upPrice,
                                                  !.downBuy = downPrice,
                                                  !.klines = rawKlines,
                                                  !.priceHistory = rawHistory]
                  /\ clock' = IF ReadsClock(market) THEN Append(clock, now3)
                               ELSE clock
                  /\ btcKlines1s' = klines
                  /\ polyHistory' = ph
                  /\ polyHistoryMs' = polyHistoryMsOf(ph)
                  /\ history' = hist
                  /\ response' = Some([status      |-> 200,
                                       btcPrice    |-> upstream.btcPrice,
                                       polymarket  |-> polyData,
                                       timeLeftMin |-> Coalesce(polyData.timeLeftMin,
                                                                Some(candleTimeLeftMin)),
                                       history     |-> hist])
    /\ routePc' = "done"
    /\ UNCHANGED <<selVars, windowStartMs, alignPc, windowEndMs, requested>>
    /\ UNCHANGED <<refVars, dashVars, atrVars, wsVars, pollVars>>

RouteNext == GetBegin \/ GetAfterEvents \/ GetCatch \/ GetAfterPrices

SpecRoute == RouteInit /\ [][RouteNext]_vars

\* GET has answered with a snapshot.
Answered == routePc = "done" /\ Val(response).status = 200

\* C11: the window computed from the first clock reading now starts at a
\* multiple of the window duration d = 900000, contains now (start <= now < end)
\* and ends d after its start, so start = floor(now / d) * d; for now = 930000
\* the window is 900000 .. 1800000.
C11_WindowClock ==
    routePc # "input" =>
        /\ windowStartMs % 900000 = 0
        /\ windowStartMs <= clock[1]
        /\ clock[1] < windowEndMs
        /\ windowEndMs = windowStartMs + 900000
        /\ (clock[1] = 930000 => (windowStartMs = 900000 /\ windowEndMs = 1800000))

\* The example: now = 930000 gives the window 900000 .. 1800000.
C11_Witness ==
    /\ Answered
    /\ clock[1] = 930000
    /\ windowStartMs = 900000
    /\ windowEndMs = 1800000

\* The end time of the selected market, in milliseconds (None: no market).
SelectedEndMs == IF picked = None THEN None ELSE Some(EndOf(markets[Val(picked)]))

\* C12: the time remaining of the answer is never negative, also when the clock
\* has passed the selected market's end time after the selection, and it is
\* end - now while now <= end.
C12_NeverNegative ==
    Answered =>
        LET r == Val(response)
        IN  /\ IsSome(r.timeLeftMin) /\ Val(r.timeLeftMin).num >= 0
            /\ IsSome(r.polymarket.timeLeftMin) =>
                   Val(r.polymarket.timeLeftMin).num >= 0
            /\ (IsSome(SelectedEndMs) /\ clock[3] <= Val(SelectedEndMs)) =>
                   Val(r.timeLeftMin).num = Val(SelectedEndMs) - clock[3]

\* C22: when a market is selected the answer's time remaining is computed from
\* that market's own end time (and the clock reading taken for it); the end of
\* the current window is used exactly when no market is selected.
C22_TimeLeftSource ==
    Answered =>
        LET r == Val(response)
        IN  /\ IsSome(SelectedEndMs) =>
                   /\ r.timeLeftMin = Some(Over60000(Val(SelectedEndMs) - clock[3]))
                   /\ r.polymarket.timeLeftMin = r.timeLeftMin
            /\ SelectedEndMs = None =>
                   /\ r.timeLeftMin = Some(Over60000(windowEndMs - clock[1]))
                   /\ r.polymarket.timeLeftMin = None

\* now = 930000 lies in the window that ends at 1800000; the selected market
\* is the upcoming one that ends at 2700000, and the answer's time remaining
\* is counted to 2700000.
C22_Witness ==
    /\ Answered
    /\ clock = <<930000, 930000, 931000>>
    /\ windowEndMs = 1800000
    /\ SelectedEndMs = Some(2700000)
    /\ Val(response).timeLeftMin = Some(Over60000(1769000))

\* The spellings of the two outcome names that differ in case only: each
\* letter is written in either case.
UpLabels   == {Str(<<u, p>>) : u \in {"u", "U"}, p \in {"p", "P"}}
DownLabels ==
    {Str(<<d, o, w, n>>) : d \in {"d", "D"}, o \in {"o", "O"}, w \in {"w", "W"},
                           n \in {"n", "N"}}

\* The positions of market mk whose label is one of `labels`, and those among
\* them that also hold a non-empty token id.
LabelPositions(mk, labels) == {i \in 1..Len(mk.outcomes) : mk.outcomes[i] \in labels}
TokenPositions(mk, labels) ==
    {i \in LabelPositions(mk, labels) :
        i <= Len(mk.clobTokenIds) /\ mk.clobTokenIds[i] # ""}

\* The token ids named by the price requests and by the price history requests.
PriceTokens   == {Val(q.token) : q \in {x \in requested : x.kind = "price"}}
HistoryTokens == {Val(q.token) : q \in {x \in requested : x.kind = "prices-history"}}

\* C26: the Up (Down) token id is the token id at the position of a label that
\* equals "up" ("down") ignoring case and holds a non-empty token id, and its
\* price is requested; without such a position no request names a token for
\* that outcome and its live price is null.  When no label of the selected
\* market matches Up or Down, neither a price nor a price history is
\* requested, and both live prices of the snapshot are null.
C26_TokenMatching ==
    (routePc = "done" /\ IsSome(picked)) =>
        LET mk  == markets[Val(picked)]
            ups == TokenPositions(mk, UpLabels)
            dns == TokenPositions(mk, DownLabels)
            unlabelled == /\ LabelPositions(mk, UpLabels) = {}
                          /\ LabelPositions(mk, DownLabels) = {}
        IN  /\ PriceTokens \subseteq {mk.clobTokenIds[i] : i \in ups \cup dns}
            /\ HistoryTokens \subseteq {mk.clobTokenIds[i] : i \in ups}
            /\ unlabelled => (PriceTokens = {} /\ HistoryTokens = {})
            /\ Answered =>
                   LET pm == Val(response).polymarket
                   IN  /\ ups # {} =>
                              /\ \E i \in ups : /\ mk.clobTokenIds[i] \in PriceTokens
                                                 /\ HistoryTokens = {mk.clobTokenIds[i]}
                              /\ pm.upPrice = upstream.upBuy
                       /\ dns # {} =>
                              /\ \E i \in dns : mk.clobTokenIds[i] \in PriceTokens
                              /\ pm.downPrice = upstream.downBuy
                       /\ ups = {} => /\ pm.upPrice = None
                                      /\ HistoryTokens = {}
                                      /\ polyHistory = <<>>
                       /\ dns = {} => pm.downPrice = None
                       /\ unlabelled => (pm.upPrice = None /\ pm.downPrice = None)

\* The selected market lists "dOwN" before "uP": the Up token is the second
\* token id, the Down token the first, and both prices were fetched.
C26_Witness ==
    /\ Answered
    /\ IsSome(picked)
    /\ markets[Val(picked)].outcomes = <<Str(<<"d", "O", "w", "N">>), Str(<<"u", "P">>)>>
    /\ PriceTokens = {"tok-e-down", "tok-e-up"}
    /\ HistoryTokens = {"tok-e-up"}
    /\ Val(response).polymarket.upPrice = Some(50)
    /\ Val(response).polymarket.downPrice = Some(50)

\* The selected-market fields of the answer.
MarketFieldsAllNull(pm) ==
    /\ pm.question = None
    /\ pm.slug = None
    /\ pm.endDate = None
    /\ pm.upPrice = None
    /\ pm.downPrice = None
    /\ pm.liquidity = None
    /\ pm.priceToBeat = None
    /\ pm.timeLeftMin = None

\* The selector has run, and no market of the list has a parseable end time
\* after the selection's now.
NoEligibleMarket ==
    /\ Len(clock) >= 2
    /\ \A i \in 1..Len(markets) :
           ~(EndParses(markets[i]) /\ clock[2] < EndOf(markets[i]))

\* C14: when no market is eligible the selector returns null and the tick still
\* answers with a snapshot (status 200), all of whose selected-market fields
\* are null.
C14_NoActiveMarket ==
    (routePc = "done" /\ NoEligibleMarket) =>
        /\ picked = None
        /\ IsSome(response)
        /\ Val(response).status = 200
        /\ MarketFieldsAllNull(Val(response).polymarket)

\* Markets are listed, none is eligible (one without end date, one ended), the
\* spot price is known and the answer carries it and the window's time left.
C14_Witness ==
    /\ Answered
    /\ Len(markets) = 2
    /\ \E i, j \in 1..2 : ~EndParses(markets[i]) /\ EndParses(markets[j])
    /\ NoEligibleMarket
    /\ Val(response).btcPrice = Some(67000)
    /\ Val(response).polymarket = EmptyPolyData
    /\ Val(response).timeLeftMin = Some(Over60000(900000))

----------------------------------------------------------------------------
(* IndicatorEngine: computeATR(klines, period)                              *)
(* The function's source is not among the files of the repository at hand   *)
(* (the dashboard only receives the atr field of the answer); it is         *)
(* modelled from section 4.4 of the specification.  A bar is                *)
(* [high, low, close], each a number that may be NaN; the average is kept   *)
(* as the exact fraction [num, den].                                        *)

Abs(x)     == IF x < 0 THEN -x ELSE x

\* A bar all of whose fields are finite.
WellFormed(bar) ==
    NumberIsFinite(bar.high) /\ NumberIsFinite(bar.low) /\ NumberIsFinite(bar.close)

\* max(high - low, |high - prevClose|, |low - prevClose|)
TrueRange(bar, prev) ==
    Max2(bar.high.v - bar.low.v,
         Max2(Abs(bar.high.v - prev.close.v), Abs(bar.low.v - prev.close.v)))

\* The sum of the true ranges of the bars at positions from .. Len(bars).
RECURSIVE SumTrueRange(_, _)
SumTrueRange(bars, from) ==
    IF from > Len(bars) THEN 0
    ELSE TrueRange(bars[from], bars[from - 1]) + SumTrueRange(bars, from + 1)

\* computeATR, mutated: one bar more is asked for before a value is returned.
computeATRStrict(klines, period) ==
    LET bars == SelectSeq(klines, WellFormed)
    IN  IF Len(bars) < period + 2
        THEN None
        ELSE Some([num |-> SumTrueRange(bars, Len(bars) - period + 1), den |-> period])

\* computeATR(klines, period): malformed bars are left out; null with fewer than
\* period + 1 bars; else the mean true range of the trailing period bars.
computeATR(klines, period) ==
    LET bars == SelectSeq(klines, WellFormed)
    IN  IF Len(bars) < period + 1
        THEN None
        ELSE Some([num |-> SumTrueRange(bars, Len(bars) - period + 1), den |-> period])

(* Bound: the number of bars. *)
MaxBars == 3

Bar(h, l, c) == [high |-> Num(h), low |-> Num(l), close |-> Num(c)]
\* A flat bar, two bars that move, and a bar whose high did not parse.
BarValues  == {Bar(100, 100, 100), Bar(110, 90, 100), Bar(105, 100, 105),
               [high |-> NaN, low |-> Num(100), close |-> Num(100)]}
AtrPeriods == {1, 2}

AtrInit ==
    /\ atrKlines \in SeqsUpTo(BarValues, MaxBars)
    /\ atrPeriod \in AtrPeriods
    /\ atrResult = None
    /\ atrPc = "input"
    /\ SelIdle /\ AlignIdle /\ RefInit /\ DashInit /\ RouteIdle /\ WsInit /\ PollInit

\* atr = computeATR(klines, period)
ComputeAtr ==
    /\ atrPc = "input"
    /\ atrResult' = computeATR(atrKlines, atrPeriod)
    /\ atrPc' = "done"
    /\ UNCHANGED <<atrKlines, atrPeriod>>
    /\ UNCHANGED <<selVars, alignVars, refVars, dashVars, routeVars, wsVars, pollVars>>

AtrNext == ComputeAtr

SpecAtr == AtrInit /\ [][AtrNext]_vars

WellFormedCount == Cardinality({i \in 1..Len(atrKlines) : WellFormed(atrKlines[i])})
\* high = low = close is the same constant on every bar.
ConstantSeries ==
    \A i \in 1..Len(atrKlines) :
        /\ WellFormed(atrKlines[i])
        /\ atrKlines[i].high = atrKlines[1].high
        /\ atrKlines[i].low = atrKlines[1].high
        /\ atrKlines[i].close = atrKlines[1].high

\* C13: computeATR returns null with fewer than period + 1 bars, a number with
\* at least period + 1 well-formed bars, and 0 for a constant series of at
\* least period + 1 bars.
C13_AtrNullAndZero ==
    atrPc = "done" =>
        /\ Len(atrKlines) < atrPeriod + 1 => atrResult = None
        /\ WellFormedCount >= atrPeriod + 1 => atrResult # None
        /\ (ConstantSeries /\ Len(atrKlines) >= atrPeriod + 1) =>
               (atrResult # None /\ Val(atrResult).num = 0)

\* Exactly period + 1 flat bars: the value returned is 0.
C13_Witness ==
    /\ atrPc = "done"
    /\ atrPeriod = 2
    /\ Len(atrKlines) = 3
    /\ ConstantSeries
    /\ atrResult = Some([num |-> 0, den |-> 2])

----------------------------------------------------------------------------
(* The WebSocket hooks: useBinanceWebSocket (part_003) and                  *)
(* usePolymarketWebSocket (part_004).  Their connection handling is the     *)
(* same code; one hook is modelled.  A socket is "connecting", "open" or    *)
(* "closing" (close() was called, the close event is still to come);        *)
(* "none" means that no socket exists.  State setters of an unmounted       *)
(* component have no effect.                                                *)

\* Math.min(10000, Math.floor(reconnectMs * 1.5)), mutated: without the cap.
NextReconnectMsUncapped(ms) == (ms * 3) \div 2

\* Math.min(10000, Math.floor(reconnectMs * 1.5))
NextReconnectMs(ms) ==
    LET grown == (ms * 3) \div 2
    IN  IF grown > 10000 THEN 10000 ELSE grown

\* The state after the effect has run: let reconnectMs = 500; connect().
WsSpecInit ==
    /\ reconnectMs = 500
    /\ wsState = "connecting"
    /\ wsRef = TRUE
    /\ reconnectTimer = None
    /\ connected = FALSE
    /\ wsData = None
    /\ wsMounted = TRUE
    /\ SelIdle /\ AlignIdle /\ RefInit /\ DashInit /\ RouteIdle /\ AtrIdle /\ PollInit

WsFrame == UNCHANGED <<selVars, alignVars, refVars, dashVars, routeVars, atrVars, pollVars>>

\* ws.onopen: setConnected(true); reconnectMs = 500
WsOpen ==
    /\ wsState = "connecting"
    /\ wsState' = "open"
    /\ connected' = IF wsMounted THEN TRUE ELSE connected
    /\ reconnectMs' = 500
    /\ UNCHANGED <<wsRef, reconnectTimer, wsData, wsMounted>>
    /\ WsFrame

\* ws.onmessage: price = parseFloat(...); if (isFinite(price)) setData({price, ...})
\* A message that does not parse, or is about another topic or symbol, is one
\* with a NaN price here.
WsMessage(price) ==
    /\ wsState = "open"
    /\ wsData' = IF NumberIsFinite(price) /\ wsMounted THEN Some(price.v) ELSE wsData
    /\ UNCHANGED <<reconnectMs, wsState, wsRef, reconnectTimer, connected, wsMounted>>
    /\ WsFrame

\* ws.onerror: ws.close()
WsError ==
    /\ wsState \in {"connecting", "open"}
    /\ wsState' = "closing"
    /\ UNCHANGED <<reconnectMs, wsRef, reconnectTimer, connected, wsData, wsMounted>>
    /\ WsFrame

\* ws.onclose: setConnected(false); wsRef.current = null;
\* reconnectTimeoutRef.current = setTimeout(..., reconnectMs)
WsClose ==
    /\ wsState \in {"connecting", "open", "closing"}
    /\ wsState' = "none"
    /\ connected' = IF wsMounted THEN FALSE ELSE connected
    /\ wsRef' = FALSE
    /\ reconnectTimer' = Some(reconnectMs)
    /\ UNCHANGED <<reconnectMs, wsData, wsMounted>>
    /\ WsFrame

\* The timer's callback: reconnectMs = Math.min(10000, Math.floor(reconnectMs * 1.5));
\* connect(), which creates the next socket and stores it in wsRef.
WsTimer ==
    /\ reconnectTimer # None
    /\ reconnectTimer' = None
    /\ reconnectMs' = NextReconnectMs(reconnectMs)
    /\ wsRef' = TRUE
    /\ wsState' = "connecting"
    /\ UNCHANGED <<connected, wsData, wsMounted>>
    /\ WsFrame

\* The effect's cleanup: clearTimeout(reconnectTimeoutRef.current);
\* if (wsRef.current) wsRef.current.close()
WsUnmount ==
    /\ wsMounted
    /\ wsMounted' = FALSE
    /\ reconnectTimer' = None
    /\ wsState' = IF wsRef /\ wsState \in {"connecting", "open"} THEN "closing" ELSE wsState
    /\ UNCHANGED <<reconnectMs, wsRef, connected, wsData>>
    /\ WsFrame

\* Trade prices as parseFloat delivers them.
WsPrices == {Num(67000), Num(67100), NaN}

WsNext ==
    \/ WsOpen
    \/ \E price \in WsPrices : WsMessage(price)
    \/ WsError
    \/ WsClose
    \/ WsTimer
    \/ WsUnmount

SpecWs == WsSpecInit /\ [][WsNext]_vars

\* The step is the close event of a socket / the firing of the reconnect timer
\* / the open event of a socket.
SocketCloses == wsState # "none" /\ wsState' = "none"
TimerFires   == reconnectTimer # None /\ wsState' = "connecting"
SocketOpens  == wsState = "connecting" /\ wsState' = "open"

\* C17: while the hook is mounted every close of a socket schedules exactly one
\* reconnect (no timer was pending, one is afterwards) with the current delay,
\* which is 500 ms after the socket had opened; each attempt multiplies the
\* delay by 1.5, rounded down and capped at 10000 ms; an open resets it to
\* 500 ms; the delay always lies in 500 .. 10000.
C17_ReconnectBackoff ==
    [][/\ 500 <= reconnectMs' /\ reconnectMs' <= 10000
       /\ reconnectTimer' # None =>
              (500 <= Val(reconnectTimer') /\ Val(reconnectTimer') <= 10000)
       /\ (SocketCloses /\ wsMounted) =>
              (reconnectTimer = None /\ reconnectTimer' = Some(reconnectMs))
       /\ (SocketCloses /\ wsMounted /\ wsState = "open") =>
              reconnectTimer' = Some(500)
       /\ TimerFires =>
              reconnectMs' = IF (reconnectMs * 3) \div 2 > 10000 THEN 10000
                             ELSE (reconnectMs * 3) \div 2
       /\ SocketOpens => reconnectMs' = 500]_vars

\* After repeated failed attempts the delay has reached its cap and the next
\* reconnect is scheduled with it, the hook still mounted and holding a price
\* of an earlier connection.
C17_Witness ==
    /\ wsMounted
    /\ reconnectMs = 10000
    /\ reconnectTimer = Some(10000)
    /\ wsData # None
    /\ ~connected

\* C28: once the effect's cleanup has run, no reconnect timer is pending and no
\* new socket is being connected (the socket that existed at the cleanup was
\* closed by it, so a connecting socket afterwards is one created afterwards).
C28_NoReconnectAfterTeardown ==
    ~wsMounted => (reconnectTimer = None /\ wsState # "connecting")

====
